---------------------------- MODULE Spec2Model ----------------------------
(***************************************************************************)
(* A model of noctivault: the remote provider's retry machine              *)
(* (provider/gcp.py), the secret resolver (app/resolver.py, core/value.py, *)
(* provider/local_mocks.py), the local-store envelope (io/enc.py) and the  *)
(* client's loader (client.py, io/fs.py) and the command-line helpers      *)
(* (cli.py).                                                               *)
(*                                                                         *)
(* Text is a sequence of code points, bytes are a sequence of 0..255.      *)
(* Each subsystem has its own specification (SpecFetch, SpecResolve,       *)
(* SpecEnvelope, SpecMocks, SpecLoad, SpecCli); the variables of the other *)
(* subsystems stay idle.                                                   *)
(***************************************************************************)
EXTENDS Integers, Sequences, FiniteSets, TLC

VARIABLES
    \* ---- remote provider (GcpSecretManagerProvider) ----
    gexc,       \* the injected exceptions namespace: [present, classes]
    fpc,        \* position of fetch: "idle", "call" (top of the while loop), "done"
    farg,       \* the arguments of the running fetch
    resource,   \* the backend resource name formatted by fetch
    attempts,   \* fetch's local attempt counter
    sleeps,     \* every delay handed to the injected sleeper, in order
    history,    \* every outcome of client.access_secret_version, in order
    fresult,    \* what fetch returned or raised
    nfetch,     \* fetches started on this provider instance
    \* ---- resolver (SecretResolver with a LocalMocksProvider) ----
    index,      \* LocalMocksProvider._index: key -> (version -> value)
    rpc,        \* position of resolve: "idle", "loop" (top of the for loop), "done"
    rarg,       \* the argument resolve is called with
    refs,       \* resolve's flattened list of (path_parts, ref)
    rnext,      \* position in refs of the entry the for loop takes next
    out,        \* resolve's nested dict under construction
    fetchLog,   \* every call of provider.fetch made by this resolve, in order
    rresult,    \* what resolve returned or raised
    view,       \* the last call made on the returned SecretNode, and its result
    \* ---- LocalMocksProvider called directly ----
    pindex,     \* LocalMocksProvider._index of the provider under call
    pcall,      \* the last call of its fetch: the arguments and the outcome
    \* ---- local-store envelope (io/enc.py) ----
    argon2,     \* _ARGON2_AVAILABLE of this process
    sealed,     \* the last seal_* call: its inputs, its random draws, its output
    unsealed,   \* the last unseal_* call: its inputs and what it returned or raised
    \* ---- the client's loader (client.py, io/fs.py) ----
    files,      \* the file system: path -> [exists, data]
    settings,   \* NoctivaultSettings of the client
    env,        \* the process environment: the two NOCTIVAULT_LOCAL_* variables
    base,       \* the local_store_path argument
    located,    \* the last call of resolve_local_store_source(base)
    loaded,     \* the last call of load(base): what it read and its outcome
    client,     \* the client's _secrets, _raw_index and _type_index
    got,        \* the last call of get(path) or display_hash(path)
    \* ---- the command-line helpers (cli.py), over the same file system ----
    cliArgs,    \* enc_path, key_file_path and passphrase handed to the helpers
    cliCall     \* the last helper called, and what it returned or raised

fetchVars == <<gexc, fpc, farg, resource, attempts, sleeps, history, fresult, nfetch>>

resolveVars == <<index, rpc, rarg, refs, rnext, out, fetchLog, rresult, view>>

envelopeVars == <<argon2, sealed, unsealed>>

mocksVars == <<pindex, pcall>>

loadVars == <<files, settings, env, base, located, loaded, client, got>>

cliVars == <<cliArgs, cliCall>>

vars == <<fetchVars, resolveVars, envelopeVars, mocksVars, loadVars, cliVars>>

\* what an action of one subsystem leaves alone
notFetchVars == <<resolveVars, envelopeVars, mocksVars, loadVars, cliVars>>
notResolveVars == <<fetchVars, envelopeVars, mocksVars, loadVars, cliVars>>
notEnvelopeVars == <<fetchVars, resolveVars, mocksVars, loadVars, cliVars>>
notMocksVars == <<fetchVars, resolveVars, envelopeVars, loadVars, cliVars>>
notLoadVars == <<fetchVars, resolveVars, envelopeVars, mocksVars, cliVars>>
\* the helpers of cli.py work on the loader's file system
notCliVars == <<fetchVars, resolveVars, envelopeVars, mocksVars,
                settings, env, base, located, loaded, client, got>>

----------------------------------------------------------------------------
(* Generic helpers *)

Min(a, b) == IF a <= b THEN a ELSE b

Pow2(n) == 2 ^ n

\* Python slice s[a:b] with 0-based bounds clamped to the sequence (a, b >= 0)
Slice(s, a, b) ==
    LET lo == Min(a, Len(s))
        hi == Min(b, Len(s))
    IN  IF hi <= lo THEN <<>> ELSE [i \in 1..(hi - lo) |-> s[lo + i]]

\* Python slice s[a:]
SliceFrom(s, a) == Slice(s, a, Len(s))

\* str(n) for a natural number n: its decimal digits as code points
RECURSIVE IntToStr(_)
IntToStr(n) ==
    IF n < 10 THEN <<48 + n>> ELSE IntToStr(n \div 10) \o <<48 + (n % 10)>>

----------------------------------------------------------------------------
(* UTF-8 *)

IsCont(b) == b >= 128 /\ b <= 191

\* bytes.decode("utf-8"): [ok, text]; text is the sequence of code points
RECURSIVE Utf8Decode(_)
Utf8Decode(data) ==
    IF data = <<>> THEN [ok |-> TRUE, text |-> <<>>]
    ELSE LET b  == data[1]
             n  == IF b <= 127 THEN 1
                   ELSE IF b >= 194 /\ b <= 223 THEN 2
                   ELSE IF b >= 224 /\ b <= 239 THEN 3
                   ELSE IF b >= 240 /\ b <= 244 THEN 4
                   ELSE 0
             wellFormed ==
                 /\ n > 0
                 /\ Len(data) >= n
                 /\ \A i \in 2..n : IsCont(data[i])
                 /\ (b = 224 => data[2] >= 160)
                 /\ (b = 237 => data[2] <= 159)
                 /\ (b = 240 => data[2] >= 144)
                 /\ (b = 244 => data[2] <= 143)
             cp == IF n = 1 THEN b
                   ELSE IF n = 2 THEN (b - 192) * 64 + (data[2] - 128)
                   ELSE IF n = 3 THEN (b - 224) * 4096 + (data[2] - 128) * 64
                                      + (data[3] - 128)
                   ELSE (b - 240) * 262144 + (data[2] - 128) * 4096
                        + (data[3] - 128) * 64 + (data[4] - 128)
         IN  IF ~wellFormed THEN [ok |-> FALSE, text |-> <<>>]
             ELSE LET rest == Utf8Decode(SliceFrom(data, n))
                  IN  IF rest.ok THEN [ok |-> TRUE, text |-> <<cp>> \o rest.text]
                      ELSE rest

----------------------------------------------------------------------------
(* Remote provider: provider/gcp.py *)

\* Platform enumeration (schema/models.py); "aws" stands for any value that
\* is not Platform.GOOGLE
GOOGLE == "google"
Platforms == {GOOGLE, "aws"}

\* "projects/", "/secrets/", "/versions/", "latest"
TxtProjects == <<112, 114, 111, 106, 101, 99, 116, 115, 47>>
TxtSecrets  == <<47, 115, 101, 99, 114, 101, 116, 115, 47>>
TxtVersions == <<47, 118, 101, 114, 115, 105, 111, 110, 115, 47>>
TxtLatest   == <<108, 97, 116, 101, 115, 116>>

\* a version is [latest |-> TRUE, n |-> 0] or [latest |-> FALSE, n |-> k]
Latest == [latest |-> TRUE, n |-> 0]
Ver(k) == [latest |-> FALSE, n |-> k]

ResourceName(project, name, version) ==
    LET ver == IF version.latest THEN TxtLatest ELSE IntToStr(version.n)
    IN  TxtProjects \o project \o TxtSecrets \o name \o TxtVersions \o ver

\* The exception classes the handler looks up in gexc
Cls5xx      == {"ServiceUnavailable", "InternalServerError", "BadGateway"}
ClsAuth     == {"PermissionDenied", "Unauthenticated"}
ClsArgument == {"InvalidArgument", "FailedPrecondition"}
ClsDeadline == {"DeadlineExceeded", "GatewayTimeout"}
ClsKnown    == {"NotFound", "ResourceExhausted"} \cup Cls5xx \cup ClsAuth
               \cup ClsArgument \cup ClsDeadline

\* gexc of the constructor: None, google.api_core.exceptions, or the
\* namespace the unit tests build (no FailedPrecondition, no GatewayTimeout)
GexcNone == [present |-> FALSE, classes |-> {}]
GexcFull == [present |-> TRUE, classes |-> ClsKnown]
GexcTest == [present |-> TRUE,
             classes |-> ClsKnown \ {"FailedPrecondition", "GatewayTimeout"}]

\* isinstance(exc, getattr(gexc, name, ()))
IsInstance(exc, g, name) == name \in g.classes /\ exc.cls = name

IsInstanceAny(exc, g, names) == \E name \in names : IsInstance(exc, g, name)

NanosPerSecond == 1000000000

\* a delay in seconds is kept exactly as [s |-> whole seconds, n |-> nanoseconds]
DelayOfNanos(t) == [s |-> t \div NanosPerSecond, n |-> t % NanosPerSecond]

DelayPositive(d) == d.s > 0 \/ (d.s = 0 /\ d.n > 0)

\* backoff_base = 0.2, as nanoseconds
backoff_base == 200000000

\* backoff_429_base = 1.0, as whole seconds
backoff_429_base == 1

Backoff5xxLinear(k) == DelayOfNanos(backoff_base * k)

Backoff5xxConstant(k) == DelayOfNanos(backoff_base)

\* delay = backoff_base * (2 ** (attempts - 1))
Backoff5xx(k) == DelayOfNanos(backoff_base * Pow2(k - 1))

\* delay = backoff_429_base * (2 ** (attempts - 1))
Backoff429(k) == [s |-> backoff_429_base * Pow2(k - 1), n |-> 0]

\* delay = 0.2 of the not-found retry
DelayNotFound == DelayOfNanos(200000000)

\* exc.retry_info: absent (None), an object without "seconds", or a duration
NoRetryInfo == [present |-> FALSE, hasSeconds |-> FALSE, seconds |-> 0, nanos |-> 0]

RetryInfo(sec, nanos) ==
    [present |-> TRUE, hasSeconds |-> TRUE, seconds |-> sec, nanos |-> nanos]

Delay429IgnoreRetryInfo(ri, k) == Backoff429(k)

\* the delay of the rate-limit branch
Delay429(ri, k) ==
    IF ri.present /\ ri.hasSeconds
    THEN LET d == [s |-> ri.seconds + (ri.nanos \div NanosPerSecond),
                   n |-> ri.nanos % NanosPerSecond]
         IN  IF ~DelayPositive(d) THEN Backoff429(k) ELSE d
    ELSE Backoff429(k)

Retry(d) == [act |-> "retry", delay |-> d, err |-> "none"]
Raise(e) == [act |-> "raise", delay |-> DelayOfNanos(0), err |-> e]

ClassifyDeadlineAs5xx(exc, g) ==
    IF ~g.present THEN "unknown"
    ELSE IF IsInstance(exc, g, "NotFound") THEN "not_found"
    ELSE IF IsInstanceAny(exc, g, Cls5xx \cup ClsDeadline) THEN "5xx"
    ELSE IF IsInstance(exc, g, "ResourceExhausted") THEN "429"
    ELSE IF IsInstanceAny(exc, g, ClsAuth) THEN "auth"
    ELSE IF IsInstanceAny(exc, g, ClsArgument) THEN "argument"
    ELSE "unknown"

\* the isinstance chain of the except handler, in its order
Classify(exc, g) ==
    IF ~g.present THEN "unknown"
    ELSE IF IsInstance(exc, g, "NotFound") THEN "not_found"
    ELSE IF IsInstanceAny(exc, g, Cls5xx) THEN "5xx"
    ELSE IF IsInstance(exc, g, "ResourceExhausted") THEN "429"
    ELSE IF IsInstanceAny(exc, g, ClsAuth) THEN "auth"
    ELSE IF IsInstanceAny(exc, g, ClsArgument) THEN "argument"
    ELSE IF IsInstanceAny(exc, g, ClsDeadline) THEN "deadline"
    ELSE "unknown"

RetryNotFoundTwice == 1 + 1

Retry5xxFourTimes == 3 + 1

\* "if attempts <= 1" of the not-found branch
MaxRetriesNotFound == 1

\* "if attempts <= 3" of the 5xx branch
MaxRetries5xx == 3

\* "if attempts <= 3" of the rate-limit branch
MaxRetries429 == 3

\* the except handler of fetch: what it does with exception exc raised by
\* backend call number k of this fetch
HandleException(exc, g, k) ==
    LET c == Classify(exc, g)
    IN  IF c = "not_found"
        THEN IF k <= MaxRetriesNotFound THEN Retry(DelayNotFound)
             ELSE Raise("MissingRemoteSecretError")
        ELSE IF c = "5xx"
        THEN IF k <= MaxRetries5xx THEN Retry(Backoff5xx(k))
             ELSE Raise("RemoteUnavailableError")
        ELSE IF c = "429"
        THEN IF k <= MaxRetries429 THEN Retry(Delay429(exc.ri, k))
             ELSE Raise("RemoteUnavailableError")
        ELSE IF c = "auth" THEN Raise("AuthorizationError")
        ELSE IF c = "argument" THEN Raise("RemoteArgumentError")
        ELSE IF c = "deadline" THEN Raise("RemoteUnavailableError")
        ELSE Raise("DecryptError")

\* results of fetch
NoResult     == [kind |-> "none", text |-> <<>>, err |-> "none"]
Returned(t)  == [kind |-> "ok", text |-> t, err |-> "none"]
Raised(e)    == [kind |-> "error", text |-> <<>>, err |-> e]

\* outcomes of client.access_secret_version
OkOutcome(data)      == [kind |-> "ok", cls |-> "none", ri |-> NoRetryInfo, data |-> data]
ExcOutcome(cls, ri)  == [kind |-> "raise", cls |-> cls, ri |-> ri, data |-> <<>>]

\* payloads the backend may return: b"hello", b"\xc3\xa9", b"\xff\xfe\x00", b"\xc3"
Payloads == {<<104, 101, 108, 108, 111>>, <<195, 169>>, <<255, 254, 0>>, <<195>>}

\* retry_info values a rate-limit error may carry
RetryInfos ==
    { NoRetryInfo,
      [present |-> TRUE, hasSeconds |-> FALSE, seconds |-> 0, nanos |-> 0],
      RetryInfo(0, 0), RetryInfo(2, 0), RetryInfo(1, 500000000),
      RetryInfo(-1, 0) }

\* "Other" is an exception of a class the handler does not look up
Outcomes ==
    {OkOutcome(d) : d \in Payloads}
    \cup {ExcOutcome(c, NoRetryInfo) : c \in (ClsKnown \ {"ResourceExhausted"}) \cup {"Other"}}
    \cup {ExcOutcome("ResourceExhausted", ri) : ri \in RetryInfos}

\* "p", "n"
TxtP == <<112>>
TxtN == <<110>>

MaxFetches == 2

Versions == {Latest, Ver(12)}

NoArg == [platform |-> GOOGLE, project |-> <<>>, name |-> <<>>, version |-> Latest]

InitFetch ==
    /\ gexc \in {GexcNone, GexcFull, GexcTest}
    /\ fpc = "idle"
    /\ farg = NoArg
    /\ resource = <<>>
    /\ attempts = 0
    /\ sleeps = <<>>
    /\ history = <<>>
    /\ fresult = NoResult
    /\ nfetch = 0

\* fetch is entered: the platform check, the resource name, attempts = 0.
\* sleeps and history are the test doubles' records of this fetch.
FetchStart(platform, version) ==
    /\ fpc \in {"idle", "done"}
    /\ nfetch < MaxFetches
    /\ nfetch' = nfetch + 1
    /\ farg' = [platform |-> platform, project |-> TxtP, name |-> TxtN,
                version |-> version]
    /\ sleeps' = <<>>
    /\ history' = <<>>
    /\ attempts' = 0
    /\ IF platform # GOOGLE
       THEN /\ fpc' = "done"
            /\ fresult' = Raised("RemoteArgumentError")
            /\ resource' = <<>>
       ELSE /\ fpc' = "call"
            /\ fresult' = NoResult
            /\ resource' = ResourceName(TxtP, TxtN, version)
    /\ UNCHANGED gexc
    /\ UNCHANGED notFetchVars

\* one pass of the while loop: the backend call and, when it raises, the handler;
\* on success the loop is left and the payload decoded
FetchAttempt(outcome) ==
    /\ fpc = "call"
    /\ attempts' = attempts + 1
    /\ history' = Append(history, outcome)
    /\ IF outcome.kind = "ok"
       THEN LET dec == Utf8Decode(outcome.data)
            IN  /\ fpc' = "done"
                /\ fresult' = IF dec.ok THEN Returned(dec.text)
                              ELSE Raised("RemoteDecodeError")
                /\ UNCHANGED sleeps
       ELSE LET h == HandleException(outcome, gexc, attempts + 1)
            IN  IF h.act = "retry"
                THEN /\ sleeps' = Append(sleeps, h.delay)
                     /\ fpc' = "call"
                     /\ UNCHANGED fresult
                ELSE /\ fpc' = "done"
                     /\ fresult' = Raised(h.err)
                     /\ UNCHANGED sleeps
    /\ UNCHANGED <<gexc, farg, resource, nfetch>>
    /\ UNCHANGED notFetchVars

NextFetch ==
    \/ \E p \in Platforms, v \in Versions : FetchStart(p, v)
    \/ \E o \in Outcomes : FetchAttempt(o)

----------------------------------------------------------------------------
(* core/value.py: SecretValue *)

\* str.strip() of int(): leading and trailing white space
IsSpace(c) == c \in {9, 10, 11, 12, 13, 32}

RECURSIVE LStrip(_)
LStrip(t) == IF t # <<>> /\ IsSpace(t[1]) THEN LStrip(Tail(t)) ELSE t

RECURSIVE RStrip(_)
RStrip(t) ==
    IF t # <<>> /\ IsSpace(t[Len(t)]) THEN RStrip(SubSeq(t, 1, Len(t) - 1)) ELSE t

IsDigit(c) == c >= 48 /\ c <= 57

\* digits with single underscores between them: [ok, val]
RECURSIVE ParseDigits(_, _, _)
ParseDigits(t, acc, afterDigit) ==
    IF t = <<>> THEN [ok |-> afterDigit, val |-> acc]
    ELSE IF IsDigit(t[1]) THEN ParseDigits(Tail(t), acc * 10 + (t[1] - 48), TRUE)
    ELSE IF t[1] = 95 /\ afterDigit /\ Len(t) >= 2 /\ IsDigit(t[2])
         THEN ParseDigits(Tail(t), acc, FALSE)
    ELSE [ok |-> FALSE, val |-> 0]

\* int(raw) for a decimal literal: [ok, val]; ok is FALSE where int() raises
ParseInt(raw) ==
    LET t    == RStrip(LStrip(raw))
        neg  == t # <<>> /\ t[1] = 45
        body == IF t # <<>> /\ t[1] \in {43, 45} THEN Tail(t) ELSE t
        d    == ParseDigits(body, 0, FALSE)
    IN  [ok |-> d.ok, val |-> IF neg THEN 0 - d.val ELSE d.val]

\* SecretValue(raw, type_)
SecretValue(raw, type) == [kind |-> "leaf", raw |-> raw, type |-> type]

CastNoValidation(v) == [ok |-> TRUE, isInt |-> FALSE, int |-> 0, str |-> v.raw]

\* SecretValue.cast(): [ok, isInt, int, str]; ok is FALSE where it raises
\* TypeCastError(raw)
Cast(v) ==
    IF v.type = "str" THEN [ok |-> TRUE, isInt |-> FALSE, int |-> 0, str |-> v.raw]
    ELSE IF v.type = "int"
    THEN LET p == ParseInt(v.raw)
         IN  [ok |-> p.ok, isInt |-> TRUE, int |-> p.val, str |-> <<>>]
    ELSE [ok |-> TRUE, isInt |-> FALSE, int |-> 0, str |-> v.raw]

----------------------------------------------------------------------------
(* provider/local_mocks.py: LocalMocksProvider *)

SetMax(S) == CHOOSE x \in S : \A y \in S : y <= x

MockKey(platform, project, name) ==
    [platform |-> platform, project |-> project, name |-> name]

MockFetchFallsBack(idx, platform, project, name, version) ==
    LET key == MockKey(platform, project, name)
    IN  IF key \notin DOMAIN idx \/ DOMAIN idx[key] = {}
        THEN [ok |-> FALSE, value |-> <<>>, err |-> "MissingLocalMockError",
              withVersion |-> FALSE, resolved |-> 0]
        ELSE LET resolved == IF version.latest \/ version.n \notin DOMAIN idx[key]
                             THEN SetMax(DOMAIN idx[key]) ELSE version.n
             IN  [ok |-> TRUE, value |-> idx[key][resolved], err |-> "none",
                  withVersion |-> FALSE, resolved |-> resolved]

\* LocalMocksProvider.fetch: [ok, value, err, withVersion, resolved]
MockFetch(idx, platform, project, name, version) ==
    LET key == MockKey(platform, project, name)
        missing(withVersion, resolved) ==
            [ok |-> FALSE, value |-> <<>>, err |-> "MissingLocalMockError",
             withVersion |-> withVersion, resolved |-> resolved]
    IN  IF key \notin DOMAIN idx \/ DOMAIN idx[key] = {}
        THEN missing(FALSE, 0)
        ELSE LET versions == idx[key]
                 resolved == IF version.latest THEN SetMax(DOMAIN versions)
                             ELSE version.n
             IN  IF resolved \in DOMAIN versions
                 THEN [ok |-> TRUE, value |-> versions[resolved], err |-> "none",
                       withVersion |-> FALSE, resolved |-> resolved]
                 ELSE missing(TRUE, resolved)

\* project "q"; values "v1", "v2", "v3", "w2", "w3"
TxtQ  == <<113>>
TxtV1 == <<118, 49>>
TxtV2 == <<118, 50>>
TxtV3 == <<118, 51>>
TxtW2 == <<119, 50>>
TxtW3 == <<119, 51>>

\* indexes a provider may be built on: several versions of one key, the same
\* name under another project, a gap between versions, a key with no version
MockStoreA ==
    (MockKey(GOOGLE, <<112>>, <<97>>) :> (1 :> TxtV1 @@ 2 :> TxtV2))
    @@ (MockKey(GOOGLE, TxtQ, <<98>>) :> (3 :> TxtW3))

MockStoreB ==
    (MockKey(GOOGLE, <<112>>, <<97>>) :> (1 :> TxtV1 @@ 3 :> TxtV3))
    @@ (MockKey(GOOGLE, TxtQ, <<97>>) :> (2 :> TxtW2))

MockStoreC ==
    (MockKey(GOOGLE, <<112>>, <<97>>) :> <<>>)
    @@ (MockKey(GOOGLE, <<112>>, <<98>>) :> (2 :> TxtV2))

MockStores == {MockStoreA, MockStoreB, MockStoreC}

\* the arguments of the calls
CallPlatforms == {GOOGLE, "aws"}
CallProjects  == {<<112>>, TxtQ}
CallNames     == {<<97>>, <<98>>, <<122, 122>>}
CallVersions  == {Latest, Ver(1), Ver(2), Ver(3), Ver(99)}

NoCall ==
    [called |-> FALSE, platform |-> GOOGLE, project |-> <<>>, name |-> <<>>,
     version |-> Latest,
     result |-> [ok |-> FALSE, value |-> <<>>, err |-> "none", withVersion |-> FALSE,
                 resolved |-> 0]]

InitMocks ==
    /\ pindex \in MockStores
    /\ pcall = NoCall

\* a call of LocalMocksProvider.fetch
ProviderFetch(platform, project, name, version) ==
    /\ pcall' = [called |-> TRUE, platform |-> platform, project |-> project,
                 name |-> name, version |-> version,
                 result |-> MockFetch(pindex, platform, project, name, version)]
    /\ UNCHANGED pindex
    /\ UNCHANGED notMocksVars

NextMocks ==
    \E platform \in CallPlatforms, project \in CallProjects, name \in CallNames,
       version \in CallVersions : ProviderFetch(platform, project, name, version)

----------------------------------------------------------------------------
(* tree/node.py: SecretNode *)

\* "***"
Masked == <<42, 42, 42>>

\* plain Python values of a projection: int, str, dict
PyInt(n)      == [kind |-> "int", int |-> n]
PyStr(t)      == [kind |-> "str", str |-> t]
PyDict(items) == [kind |-> "pydict", items |-> items]

WalkAlwaysMasked(x, reveal) ==
    IF x.kind = "dict"
    THEN PyDict([k \in DOMAIN x.items |->
                    IF x.items[k].kind = "dict"
                    THEN PyDict([c \in DOMAIN x.items[k].items |-> PyStr(Masked)])
                    ELSE PyStr(Masked)])
    ELSE PyStr(Masked)

\* walk of to_dict: a dict is walked key by key, a SecretValue gives cast()
\* when revealed and "***" otherwise
RECURSIVE Walk(_, _)
Walk(x, reveal) ==
    IF x.kind = "dict"
    THEN PyDict([k \in DOMAIN x.items |-> Walk(x.items[k], reveal)])
    ELSE IF reveal
         THEN LET c == Cast(x) IN IF c.isInt THEN PyInt(c.int) ELSE PyStr(c.str)
         ELSE PyStr(Masked)

\* whether no cast() of the walk raises
RECURSIVE WalkOk(_, _)
WalkOk(x, reveal) ==
    IF x.kind = "dict" THEN \A k \in DOMAIN x.items : WalkOk(x.items[k], reveal)
    ELSE reveal => Cast(x).ok

\* results of a call on a node
NoView ==
    [op |-> "none", reveal |-> FALSE, path |-> <<>>, ok |-> TRUE, value |-> PyStr(<<>>)]
ViewOk(op, reveal, value) == [NoView EXCEPT !.op = op, !.reveal = reveal, !.value = value]
ViewErr(op, reveal, e) ==
    [NoView EXCEPT !.op = op, !.reveal = reveal, !.ok = FALSE, !.value = PyStr(e)]

\* SecretNode(data).to_dict(reveal)
to_dict(data, reveal) ==
    IF WalkOk(data, reveal) THEN ViewOk("to_dict", reveal, Walk(data, reveal))
    ELSE ViewErr("to_dict", reveal, "TypeCastError")

\* a sequence without the later copies of its elements
RECURSIVE Distinct(_)
Distinct(s) ==
    IF s = <<>> THEN <<>>
    ELSE LET init == Distinct(SubSeq(s, 1, Len(s) - 1))
             x    == s[Len(s)]
         IN  IF \E i \in DOMAIN init : init[i] = x THEN init ELSE Append(init, x)

\* the keys placed below prefix by the placements rs, one per placement
RECURSIVE PathKeys(_, _)
PathKeys(rs, prefix) ==
    IF rs = <<>> THEN <<>>
    ELSE LET p    == rs[1].path
             rest == PathKeys(Tail(rs), prefix)
         IN  IF Len(p) > Len(prefix) /\ SubSeq(p, 1, Len(prefix)) = prefix
             THEN <<p[Len(prefix) + 1]>> \o rest
             ELSE rest

\* the order in which the dict below prefix lists its keys: a Python dict
\* keeps the order of first insertion
InsertionOrder(rs, prefix) == Distinct(PathKeys(rs, prefix))

\* repr of a str of printable characters with no quote and no backslash
ReprStr(t) == <<39>> \o t \o <<39>>

\* ", ".join(items)
RECURSIVE JoinItems(_)
JoinItems(items) ==
    IF items = <<>> THEN <<>>
    ELSE IF Len(items) = 1 THEN items[1]
    ELSE items[1] \o <<44, 32>> \o JoinItems(Tail(items))

\* repr of a projection whose dicts were filled by the placements rs
RECURSIVE ReprValue(_, _, _)
ReprValue(v, prefix, rs) ==
    IF v.kind = "pydict"
    THEN LET ks == InsertionOrder(rs, prefix)
         IN  <<123>>
             \o JoinItems([i \in 1..Len(ks) |->
                              ReprStr(ks[i]) \o <<58, 32>>
                              \o ReprValue(v.items[ks[i]], Append(prefix, ks[i]), rs)])
             \o <<125>>
    ELSE IF v.kind = "int"
    THEN (IF v.int < 0 THEN <<45>> \o IntToStr(0 - v.int) ELSE IntToStr(v.int))
    ELSE ReprStr(v.str)

\* "SecretNode"
TxtSecretNode == <<83, 101, 99, 114, 101, 116, 78, 111, 100, 101>>

node_repr_revealed(data, rs) ==
    TxtSecretNode \o <<40>> \o ReprValue(Walk(data, TRUE), <<>>, rs) \o <<41>>

\* SecretNode.__repr__ (and __str__): f"SecretNode({self.to_dict(False)})"
node_repr(data, rs) ==
    TxtSecretNode \o <<40>> \o ReprValue(to_dict(data, FALSE).value, <<>>, rs) \o <<41>>

\* SecretNode.__getattr__(key) for a key of the data
GetAttr(data, key) ==
    IF key \notin DOMAIN data.items THEN [kind |-> "KeyError", data |-> data]
    ELSE IF data.items[key].kind = "dict" THEN [kind |-> "node", data |-> data.items[key]]
    ELSE [kind |-> "leaf", data |-> data.items[key]]

\* "_data", "to_dict", "_as_mapping"
TxtData      == <<95, 100, 97, 116, 97>>
TxtToDict    == <<116, 111, 95, 100, 105, 99, 116>>
TxtAsMapping == <<95, 97, 115, 95, 109, 97, 112, 112, 105, 110, 103>>

\* the names ordinary attribute lookup finds on a SecretNode before
\* __getattr__ is tried: the instance field and the methods of the class
\* (the names every object has, such as __class__, are found as well)
NodeAttributes == {TxtData, TxtToDict, TxtAsMapping}

\* node.key, i.e. getattr(node, key): __getattr__ is called only when the
\* ordinary lookup finds nothing
node_getattr(data, key) ==
    IF key \in NodeAttributes THEN [kind |-> "attribute", data |-> data]
    ELSE GetAttr(data, key)

\* node[key]: __getitem__ returns getattr(self, key)
node_getitem(data, key) == node_getattr(data, key)

\* node.k1 or node.k1.k2
RECURSIVE GetPath(_, _)
GetPath(data, path) ==
    LET x == node_getattr(data, path[1])
    IN  IF Len(path) = 1 \/ x.kind # "node" THEN x ELSE GetPath(x.data, Tail(path))

\* _LeafProxy.__repr__ and SecretValue.__repr__ (and their __str__)
leaf_repr(value) == Masked

----------------------------------------------------------------------------
(* app/resolver.py: SecretResolver *)

\* a SecretRef after validation (schema/models.py)
SecretRef(platform, project, cast, ref, version, type) ==
    [platform |-> platform, gcp_project_id |-> project, cast |-> cast,
     ref |-> ref, version |-> version, type |-> type]

NoRef == SecretRef(GOOGLE, <<>>, <<>>, <<>>, Latest, "str")

\* the two kinds of entry of secret_refs
LeafEntry(r)      == [kind |-> "ref", ref |-> r, key |-> <<>>, children |-> <<>>]
GroupEntry(k, ch) == [kind |-> "group", ref |-> NoRef, key |-> k, children |-> ch]

\* what resolve is called with: a plain list of entries, or a config object
\* whose attribute secret_refs is a list or None
Arg(kind, none, entries) == [kind |-> kind, none |-> none, entries |-> entries]
ConfigArgNoRefs == Arg("config", TRUE, <<>>)

\* whether "cfg.secret_refs" can be read: a list has no such attribute
HasSecretRefs(arg) == arg.kind = "config"

RECURSIVE FlattenLastFirst(_)
FlattenLastFirst(entries) ==
    IF entries = <<>> THEN <<>>
    ELSE LET e == entries[1]
             here == IF e.kind = "group"
                     THEN [i \in 1..Len(e.children) |->
                              [path |-> <<e.key, e.children[i].cast>>,
                               ref |-> e.children[i]]]
                     ELSE << [path |-> <<e.ref.cast>>, ref |-> e.ref] >>
         IN  FlattenLastFirst(Tail(entries)) \o here

\* the flattening loop of resolve: the (path_parts, ref) of every entry
RECURSIVE Flatten(_)
Flatten(entries) ==
    IF entries = <<>> THEN <<>>
    ELSE LET e == entries[1]
             here == IF e.kind = "group"
                     THEN [i \in 1..Len(e.children) |->
                              [path |-> <<e.key, e.children[i].cast>>,
                               ref |-> e.children[i]]]
                     ELSE << [path |-> <<e.ref.cast>>, ref |-> e.ref] >>
         IN  here \o Flatten(Tail(entries))

\* ".".join(path)
RECURSIVE Join(_)
Join(path) ==
    IF path = <<>> THEN <<>>
    ELSE IF Len(path) = 1 THEN path[1]
    ELSE path[1] \o <<46>> \o Join(Tail(path))

EmptyItems == <<>>
Dict(items) == [kind |-> "dict", items |-> items]

SetItem(items, k, v) ==
    [x \in DOMAIN items \cup {k} |-> IF x = k THEN v ELSE items[x]]

PlaceOk(tree)      == [ok |-> TRUE, tree |-> tree, err |-> "none", arg |-> <<>>]
PlaceErr(tree, e, a) == [ok |-> FALSE, tree |-> tree, err |-> e, arg |-> a]

\* _place below the node cur: the setdefault walk over path[:-1], the
\* membership test of the leaf and the assignment.  A SecretValue has neither
\* setdefault nor a membership test.
RECURSIVE PlaceAt(_, _, _, _)
PlaceAt(cur, path, full, value) ==
    IF Len(path) = 1
    THEN IF cur.kind # "dict" THEN PlaceErr(cur, "TypeError", <<>>)
         ELSE IF path[1] \in DOMAIN cur.items
              THEN PlaceErr(cur, "DuplicatePathError", Join(full))
              ELSE PlaceOk(Dict(SetItem(cur.items, path[1], value)))
    ELSE IF cur.kind # "dict" THEN PlaceErr(cur, "AttributeError", <<>>)
         ELSE LET child == IF path[1] \in DOMAIN cur.items THEN cur.items[path[1]]
                           ELSE Dict(EmptyItems)
                  sub == PlaceAt(child, Tail(path), full, value)
                  tree == Dict(SetItem(cur.items, path[1], sub.tree))
              IN  [sub EXCEPT !.tree = tree]

PlaceOverwritingGroups(tree, path, value) ==
    IF Len(path) = 1 THEN PlaceAt(tree, path, path, value)
    ELSE PlaceOk(Dict(SetItem(tree.items, path[1],
                              Dict(SetItem(EmptyItems, path[2], value)))))

\* SecretResolver._place(tree, path, value)
Place(tree, path, value) == PlaceAt(tree, path, path, value)

\* results of resolve
NoKey == [platform |-> GOOGLE, project |-> <<>>, name |-> <<>>,
          withVersion |-> FALSE, resolved |-> 0]
RNone == [kind |-> "none", tree |-> Dict(EmptyItems), err |-> "none",
          arg |-> <<>>, key |-> NoKey]
RNode(tree) == [RNone EXCEPT !.kind = "node", !.tree = tree]
RError(e, a) == [RNone EXCEPT !.kind = "error", !.err = e, !.arg = a]
RMissing(r, f) ==
    [RNone EXCEPT !.kind = "error", !.err = f.err,
                  !.key = [platform |-> r.platform, project |-> r.gcp_project_id,
                           name |-> r.ref, withVersion |-> f.withVersion,
                           resolved |-> f.resolved]]

\* the arguments of one provider.fetch call
FetchCall(r) == [platform |-> r.platform, project |-> r.gcp_project_id,
                 name |-> r.ref, version |-> r.version]

\* "a", "b", "g": destination keys
TxtA == <<97>>
TxtB == <<98>>
TxtG == <<103>>

\* "a.b": a destination key with a dot in it
TxtAdotB == <<97, 46, 98>>

\* "port", "db", "n", "zz": secret names ("zz" is declared by no mock)
TxtPort == <<112, 111, 114, 116>>
TxtDb   == <<100, 98>>
TxtZz   == <<122, 122>>

\* mock values "5432", "00123", " -7\n", "not-int", "4_2"
Txt5432   == <<53, 52, 51, 50>>
Txt00123  == <<48, 48, 49, 50, 51>>
TxtNeg7   == <<32, 45, 55, 10>>
TxtNotInt == <<110, 111, 116, 45, 105, 110, 116>>
Txt4u2    == <<52, 95, 50>>

\* the index LocalMocksProvider.from_config builds from a store document
MockIndexA ==
    (MockKey(GOOGLE, TxtP, TxtPort) :> (1 :> Txt5432))
    @@ (MockKey(GOOGLE, TxtP, TxtDb) :> (1 :> Txt00123 @@ 2 :> TxtNeg7))
    @@ (MockKey(GOOGLE, TxtP, TxtN) :> (1 :> TxtNotInt))

MockIndexB ==
    (MockKey(GOOGLE, TxtP, TxtPort) :> (1 :> Txt5432))
    @@ (MockKey(GOOGLE, TxtP, TxtDb) :> (1 :> Txt00123))
    @@ (MockKey(GOOGLE, TxtP, TxtN) :> (1 :> Txt4u2))

\* a store whose secret "db" is the text "***"
MockIndexC ==
    (MockKey(GOOGLE, TxtP, TxtPort) :> (1 :> Txt5432))
    @@ (MockKey(GOOGLE, TxtP, TxtDb) :> (1 :> Masked))
    @@ (MockKey(GOOGLE, TxtP, TxtN) :> (1 :> Txt4u2))

MockIndexes == {MockIndexA, MockIndexB, MockIndexC}

\* the reference entries a reference document may declare
GroupKeys == {TxtA, TxtG}

Ref(cast, ref, version, type) == SecretRef(GOOGLE, TxtP, cast, ref, version, type)

\* bare leaves: integers that parse, one that may not, a str, "latest", a
\* name no mock declares, a cast with a dot in it, and a cast that is the
\* name of a method of SecretNode
LeafRefs ==
    { Ref(TxtA, TxtPort, Ver(1), "int"),
      Ref(TxtA, TxtDb, Latest, "int"),
      Ref(TxtA, TxtZz, Ver(1), "str"),
      Ref(TxtB, TxtN, Ver(1), "int"),
      Ref(TxtB, TxtDb, Latest, "str"),
      Ref(TxtG, TxtPort, Ver(1), "int"),
      Ref(TxtAdotB, TxtPort, Ver(1), "int"),
      Ref(TxtToDict, TxtPort, Ver(1), "int") }

ChildPairRefs ==
    { Ref(TxtA, TxtPort, Ver(1), "int"),
      Ref(TxtB, TxtN, Ver(1), "int") }

ChildRefs == ChildPairRefs \cup { Ref(TxtA, TxtDb, Latest, "str") }

ChildLists ==
    {<<>>} \cup {<<x>> : x \in ChildRefs} \cup {<<x, y>> : x \in ChildPairRefs, y \in ChildPairRefs}

Entries ==
    {LeafEntry(r) : r \in LeafRefs}
    \cup {GroupEntry(k, ch) : k \in GroupKeys, ch \in ChildLists}

MaxEntries == 2

\* a plain list is rejected before its entries are read: lists of at most one
\* entry stand for all of them
ShortEntryLists == UNION {[1..n -> Entries] : n \in 0..1}

EntryLists == UNION {[1..n -> Entries] : n \in 0..MaxEntries}

\* what a caller may hand to resolve
ResolveArgs ==
    {Arg("list", FALSE, l) : l \in ShortEntryLists}
    \cup {Arg("config", FALSE, l) : l \in EntryLists}
    \cup {ConfigArgNoRefs}

InitResolve ==
    /\ index \in MockIndexes
    /\ rpc = "idle"
    /\ rarg \in ResolveArgs
    /\ refs = <<>>
    /\ rnext = 1
    /\ out = Dict(EmptyItems)
    /\ fetchLog = <<>>
    /\ rresult = RNone
    /\ view = NoView

\* resolve(cfg) up to the for loop: "cfg.secret_refs" is read, the entries
\* are flattened, out = {}
ResolveStart ==
    /\ rpc = "idle"
    /\ IF ~HasSecretRefs(rarg)
       THEN /\ rpc' = "done"
            /\ rresult' = RError("AttributeError", <<>>)
            /\ refs' = <<>>
       ELSE /\ rpc' = "loop"
            /\ rresult' = RNone
            /\ refs' = IF rarg.none \/ rarg.entries = <<>> THEN <<>>
                       ELSE Flatten(rarg.entries)
    /\ out' = Dict(EmptyItems)
    /\ fetchLog' = <<>>
    /\ rnext' = 1
    /\ UNCHANGED <<index, rarg, view>>
    /\ UNCHANGED notResolveVars

\* one pass of the for loop: fetch, SecretValue, cast, _place
ResolveEntry ==
    /\ rpc = "loop"
    /\ rnext <= Len(refs)
    /\ LET e   == refs[rnext]
           f   == MockFetch(index, e.ref.platform, e.ref.gcp_project_id,
                            e.ref.ref, e.ref.version)
           val == SecretValue(f.value, e.ref.type)
           c   == Cast(val)
           pl  == Place(out, e.path, val)
       IN  /\ fetchLog' = Append(fetchLog, FetchCall(e.ref))
           /\ IF ~f.ok
              THEN /\ rpc' = "done"
                   /\ rresult' = RMissing(e.ref, f)
                   /\ UNCHANGED <<out, rnext>>
              ELSE IF ~c.ok
              THEN /\ rpc' = "done"
                   /\ rresult' = RError("TypeCastError", val.raw)
                   /\ UNCHANGED <<out, rnext>>
              ELSE IF ~pl.ok
              THEN /\ rpc' = "done"
                   /\ rresult' = RError(pl.err, pl.arg)
                   /\ out' = pl.tree
                   /\ UNCHANGED rnext
              ELSE /\ out' = pl.tree
                   /\ rnext' = rnext + 1
                   /\ UNCHANGED <<rpc, rresult>>
    /\ UNCHANGED <<index, rarg, refs, view>>
    /\ UNCHANGED notResolveVars

\* return SecretNode(out)
ResolveReturn ==
    /\ rpc = "loop"
    /\ rnext > Len(refs)
    /\ rpc' = "done"
    /\ rresult' = RNode(out)
    /\ UNCHANGED <<index, rarg, refs, rnext, out, fetchLog, view>>
    /\ UNCHANGED notResolveVars

\* node.to_dict(reveal) on the node resolve returned
ToDict(reveal) ==
    /\ rpc = "done"
    /\ rresult.kind = "node"
    /\ view' = to_dict(rresult.tree, reveal)
    /\ UNCHANGED <<index, rpc, rarg, refs, rnext, out, fetchLog, rresult>>
    /\ UNCHANGED notResolveVars

\* repr(node) or str(node) on the node resolve returned
Repr(op) ==
    /\ rpc = "done"
    /\ rresult.kind = "node"
    /\ view' = ViewOk(op, FALSE, PyStr(node_repr(rresult.tree, refs)))
    /\ UNCHANGED <<index, rpc, rarg, refs, rnext, out, fetchLog, rresult>>
    /\ UNCHANGED notResolveVars

\* repr(node.k1) or repr(node.k1.k2) for a leaf of the node resolve returned
LeafRepr(path) ==
    /\ rpc = "done"
    /\ rresult.kind = "node"
    /\ GetPath(rresult.tree, path).kind = "leaf"
    /\ view' = [ViewOk("leaf_repr", FALSE,
                       PyStr(leaf_repr(GetPath(rresult.tree, path).data)))
                EXCEPT !.path = path]
    /\ UNCHANGED <<index, rpc, rarg, refs, rnext, out, fetchLog, rresult>>
    /\ UNCHANGED notResolveVars

\* node.key (op "getattr") or node[key] (op "getitem") on the node resolve
\* returned, for the keys of the node and for a key it does not have
Get(op) ==
    /\ rpc = "done"
    /\ rresult.kind = "node"
    /\ \E key \in DOMAIN rresult.tree.items \cup {TxtZz} :
          LET x == IF op = "getattr" THEN node_getattr(rresult.tree, key)
                   ELSE node_getitem(rresult.tree, key)
          IN  view' = IF x.kind = "KeyError"
                      THEN [ViewErr(op, FALSE, "KeyError") EXCEPT !.path = <<key>>]
                      ELSE [ViewOk(op, FALSE, x) EXCEPT !.path = <<key>>]
    /\ UNCHANGED <<index, rpc, rarg, refs, rnext, out, fetchLog, rresult>>
    /\ UNCHANGED notResolveVars

NextResolve ==
    \/ ResolveStart
    \/ ResolveEntry
    \/ ResolveReturn
    \/ \E reveal \in BOOLEAN : ToDict(reveal)
    \/ \E op \in {"repr", "str"} : Repr(op)
    \/ \E i \in DOMAIN refs : LeafRepr(refs[i].path)
    \/ \E op \in {"getattr", "getitem"} : Get(op)

----------------------------------------------------------------------------
(* io/enc.py: the envelope.  AES-GCM, Argon2id and Scrypt are library code:  *)
(* they are modelled by a keyed stream, a tag and key-derivation functions   *)
(* built on one polynomial hash, with the libraries' parameter checks.       *)

\* str.encode("utf-8")
RECURSIVE Utf8Encode(_)
Utf8Encode(text) ==
    IF text = <<>> THEN <<>>
    ELSE LET c == text[1]
             b == IF c <= 127 THEN <<c>>
                  ELSE IF c <= 2047 THEN <<192 + (c \div 64), 128 + (c % 64)>>
                  ELSE IF c <= 65535
                       THEN <<224 + (c \div 4096), 128 + ((c \div 64) % 64), 128 + (c % 64)>>
                  ELSE <<240 + (c \div 262144), 128 + ((c \div 4096) % 64),
                         128 + ((c \div 64) % 64), 128 + (c % 64)>>
         IN  b \o Utf8Encode(Tail(text))

HashModulus == 32749

\* 257^e modulo HashModulus
RECURSIVE PowMod(_)
PowMod(e) ==
    IF e = 0 THEN 1
    ELSE LET h == PowMod(e \div 2)
         IN  (((h * h) % HashModulus) * (IF e % 2 = 1 THEN 257 ELSE 1)) % HashModulus

\* the polynomial hash of bytes[lo..hi]: the sum of (bytes[i] + 1) * 257^(hi - i)
RECURSIVE PolyHashRange(_, _, _)
PolyHashRange(bytes, lo, hi) ==
    IF lo > hi THEN 0
    ELSE IF lo = hi THEN (bytes[lo] + 1) % HashModulus
    ELSE LET mid == (lo + hi) \div 2
         IN  (PolyHashRange(bytes, lo, mid) * PowMod(hi - mid)
              + PolyHashRange(bytes, mid + 1, hi)) % HashModulus

PolyHash(bytes) == (PowMod(Len(bytes)) + PolyHashRange(bytes, 1, Len(bytes))) % HashModulus

\* n bytes derived from a hash value
Expand(h, n) ==
    [j \in 1..n |-> IF j = 1 THEN h % 256
                    ELSE IF j = 2 THEN h \div 256
                    ELSE (h * (2 * j - 1) + j * j) % 256]

TagSize == 16

AeadKeySizes == {16, 24, 32}

\* AESGCM(key), and the nonce check of encrypt and decrypt
AeadParamsOk(key, nonce) ==
    Len(key) \in AeadKeySizes /\ Len(nonce) >= 8 /\ Len(nonce) <= 128

KeyStream(key, nonce, i) ==
    (key[((i - 1) % Len(key)) + 1] * 7 + nonce[((i - 1) % Len(nonce)) + 1] * 13
     + i * 29) % 256

AeadTag(key, nonce, body, aad) ==
    Expand(PolyHash(<<Len(key)>> \o key \o <<Len(nonce)>> \o nonce
                    \o <<Len(aad)>> \o aad \o body), TagSize)

\* AESGCM(key).encrypt(nonce, plaintext, aad), parameters valid
AeadEncrypt(key, nonce, plaintext, aad) ==
    LET body == [i \in 1..Len(plaintext) |->
                    (plaintext[i] + KeyStream(key, nonce, i)) % 256]
    IN  body \o AeadTag(key, nonce, body, aad)

\* AESGCM(key).decrypt(nonce, data, aad): [ok, data]; ok is FALSE where the
\* library raises (bad key size, bad nonce size, InvalidTag)
AeadDecrypt(key, nonce, data, aad) ==
    IF ~AeadParamsOk(key, nonce) \/ Len(data) < TagSize
    THEN [ok |-> FALSE, data |-> <<>>]
    ELSE LET body == SubSeq(data, 1, Len(data) - TagSize)
             tag  == SubSeq(data, Len(data) - TagSize + 1, Len(data))
         IN  IF tag # AeadTag(key, nonce, body, aad)
             THEN [ok |-> FALSE, data |-> <<>>]
             ELSE [ok |-> TRUE,
                   data |-> [i \in 1..Len(body) |->
                                (body[i] + 256 - KeyStream(key, nonce, i)) % 256]]

\* b"NVLE1"
MAGIC == <<78, 86, 76, 69, 49>>
MODE_KEYFILE == 0
MODE_PASSPHRASE == 1
KDF_ID_ARGON2ID == 1
NONCE_SIZE == 12

\* what seal_* and unseal_* return or raise
EnvOk(data) == [ok |-> TRUE, data |-> data, err |-> "none"]
EnvErr(e)   == [ok |-> FALSE, data |-> <<>>, err |-> e]

StartsWith(data, prefix) ==
    Len(data) >= Len(prefix) /\ SubSeq(data, 1, Len(prefix)) = prefix

\* seal_with_key(plaintext, key) with nonce the value os.urandom returned
seal_with_key(plaintext, key, nonce) ==
    IF ~AeadParamsOk(key, nonce) THEN EnvErr("ValueError")
    ELSE EnvOk(MAGIC \o nonce \o AeadEncrypt(key, nonce, plaintext, MAGIC))

\* an offset that never looks for a mode tag
KeyfileNonceOffsetLegacy(data) == Len(MAGIC)

\* the offset of the nonce in unseal_with_key: past the magic, and past the
\* byte after it when that byte is a mode tag.  -1 stands for the wrong mode.
KeyfileNonceOffset(data) ==
    LET idx == Len(MAGIC)
    IN  IF Len(data) > idx /\ data[idx + 1] \in {MODE_KEYFILE, MODE_PASSPHRASE}
        THEN IF data[idx + 1] # MODE_KEYFILE THEN -1 ELSE idx + 1
        ELSE idx

\* unseal_with_key(data, key)
unseal_with_key(data, key) ==
    IF ~StartsWith(data, MAGIC) THEN EnvErr("InvalidEncHeaderError")
    ELSE LET idx == KeyfileNonceOffset(data)
         IN  IF idx < 0 THEN EnvErr("InvalidEncHeaderError")
             ELSE LET nonce == Slice(data, idx, idx + NONCE_SIZE)
                      ct    == SliceFrom(data, idx + NONCE_SIZE)
                      pt    == AeadDecrypt(key, nonce, ct, MAGIC)
                  IN  IF pt.ok THEN EnvOk(pt.data) ELSE EnvErr("DecryptError")

\* Scrypt(salt, length=32, n, r, p).derive(secret)
kdf_scrypt(secret, salt, n, r, p) ==
    [ok |-> TRUE,
     key |-> Expand(PolyHash(<<2, p, r, n \div 256, n % 256>>
                             \o <<Len(secret)>> \o secret \o salt), 32)]

\* argon2.low_level.hash_secret_raw with its parameter checks
argon2_hash(secret, salt, time_cost, memory_cost, parallelism) ==
    IF time_cost < 1 \/ parallelism < 1 \/ memory_cost < 8 * parallelism
       \/ Len(salt) < 8
    THEN [ok |-> FALSE, key |-> <<>>]
    ELSE [ok |-> TRUE,
          key |-> Expand(PolyHash(<<1, time_cost, parallelism,
                                    memory_cost \div 65536, (memory_cost \div 256) % 256,
                                    memory_cost % 256>>
                                  \o <<Len(secret)>> \o secret \o salt), 32)]

\* _kdf_argon2id(passphrase, salt, time_cost=, memory_cost=, parallelism=)
kdf_argon2id(passphrase, salt, time_cost, memory_cost, parallelism) ==
    IF ~argon2
    THEN kdf_scrypt(Utf8Encode(passphrase), salt, 16384, 8,
                    IF parallelism = 0 THEN 1 ELSE parallelism)
    ELSE argon2_hash(Utf8Encode(passphrase), salt, time_cost, memory_cost, parallelism)

ToBytes4Little(n) ==
    <<n % 256, (n \div 256) % 256, (n \div 65536) % 256, (n \div 16777216) % 256>>

\* n.to_bytes(4, "big")
ToBytes4(n) ==
    <<(n \div 16777216) % 256, (n \div 65536) % 256, (n \div 256) % 256, n % 256>>

\* int.from_bytes(b, "big")
RECURSIVE FromBytes(_)
FromBytes(b) ==
    IF b = <<>> THEN 0 ELSE FromBytes(SubSeq(b, 1, Len(b) - 1)) * 256 + b[Len(b)]

DefaultTimeCost == 2
DefaultMemoryCost == 65536
DefaultParallelism == 1
SaltSize == 16

\* seal_with_passphrase(plaintext, passphrase) with salt and nonce the values
\* os.urandom returned
seal_with_passphrase(plaintext, passphrase, salt, nonce) ==
    LET k == kdf_argon2id(passphrase, salt, DefaultTimeCost, DefaultMemoryCost,
                          DefaultParallelism)
    IN  IF ~k.ok THEN EnvErr("HashingError")
        ELSE IF ~AeadParamsOk(k.key, nonce) THEN EnvErr("ValueError")
        ELSE LET ct == AeadEncrypt(k.key, nonce, plaintext, MAGIC)
                 header == MAGIC \o <<MODE_PASSPHRASE, KDF_ID_ARGON2ID,
                                      DefaultTimeCost % 256, DefaultParallelism % 256>>
                           \o ToBytes4(DefaultMemoryCost) \o <<Len(salt)>> \o salt \o nonce
             IN  EnvOk(header \o ct)

\* unseal_with_passphrase(data, passphrase).  Indexing past the end of data
\* raises IndexError; a failing key derivation raises outside the try block.
unseal_with_passphrase(data, passphrase) ==
    LET idx == Len(MAGIC)
    IN  IF ~StartsWith(data, MAGIC) THEN EnvErr("InvalidEncHeaderError")
        ELSE IF Len(data) <= idx \/ data[idx + 1] # MODE_PASSPHRASE
        THEN EnvErr("InvalidEncHeaderError")
        ELSE IF Len(data) <= idx + 1 THEN EnvErr("IndexError")
        ELSE IF data[idx + 2] # KDF_ID_ARGON2ID THEN EnvErr("InvalidEncHeaderError")
        ELSE IF Len(data) <= idx + 8 THEN EnvErr("IndexError")
        ELSE LET time_cost   == data[idx + 3]
                 parallelism == data[idx + 4]
                 memory_cost == FromBytes(Slice(data, idx + 4, idx + 8))
                 sl          == data[idx + 9]
                 at          == idx + 9
                 salt        == Slice(data, at, at + sl)
                 nonce       == Slice(data, at + sl, at + sl + NONCE_SIZE)
                 ct          == SliceFrom(data, at + sl + NONCE_SIZE)
                 k  == kdf_argon2id(passphrase, salt, time_cost, memory_cost, parallelism)
             IN  IF ~k.ok THEN EnvErr("HashingError")
                 ELSE LET pt == AeadDecrypt(k.key, nonce, ct, MAGIC)
                      IN  IF pt.ok THEN EnvOk(pt.data) ELSE EnvErr("DecryptError")

\* plaintexts: b"", b"hi", b"a: 1\n"
Plaintexts == {<<>>, <<104, 105>>, <<97, 58, 32, 49, 10>>}

\* keys a caller may hand over: two 256-bit keys and one of 3 bytes
KeyA == [i \in 1..32 |-> i]
KeyB == [i \in 1..32 |-> (7 * i + 3) % 256]
KeyShort == <<1, 2, 3>>
Keys == {KeyA, KeyB, KeyShort}

\* passphrases: "pw", "pé"
Passphrases == {<<112, 119>>, <<112, 233>>}

\* values os.urandom(12) may return, among them one starting with byte 0x00,
\* one starting with byte 0x01 and one starting with byte 0x81
Nonces ==
    { [i \in 1..NONCE_SIZE |-> 160 + i],
      [i \in 1..NONCE_SIZE |-> IF i = 1 THEN 0 ELSE 3 * i],
      [i \in 1..NONCE_SIZE |-> IF i = 1 THEN 1 ELSE 5 * i],
      [i \in 1..NONCE_SIZE |-> 128 + i] }

\* values os.urandom(16) may return
Salts == { [i \in 1..SaltSize |-> 200 + i], [i \in 1..SaltSize |-> 2 * i] }

NotSealed ==
    [mode |-> "none", result |-> EnvErr("none"), plaintext |-> <<>>, key |-> <<>>,
     passphrase |-> <<>>, salt |-> <<>>, nonce |-> <<>>]

NotUnsealed ==
    [mode |-> "none", result |-> EnvErr("none"), input |-> <<>>, key |-> <<>>,
     passphrase |-> <<>>]

InitEnvelope ==
    /\ argon2 \in BOOLEAN
    /\ sealed = NotSealed
    /\ unsealed = NotUnsealed

\* A behaviour is one seal_* call followed by one unseal_* call: the functions
\* keep no state, so further calls would only repeat these.

\* a call of seal_with_key; the nonce is os.urandom's draw
SealWithKey(plaintext, key) ==
    /\ sealed.mode = "none"
    /\ \E nonce \in Nonces :
          sealed' = [mode |-> "key", result |-> seal_with_key(plaintext, key, nonce),
                     plaintext |-> plaintext, key |-> key, passphrase |-> <<>>,
                     salt |-> <<>>, nonce |-> nonce]
    /\ unsealed' = NotUnsealed
    /\ UNCHANGED argon2
    /\ UNCHANGED notEnvelopeVars

\* a call of seal_with_passphrase; salt and nonce are os.urandom's draws
SealWithPassphrase(plaintext, passphrase) ==
    /\ sealed.mode = "none"
    /\ \E salt \in Salts, nonce \in Nonces :
          sealed' = [mode |-> "passphrase",
                     result |-> seal_with_passphrase(plaintext, passphrase, salt, nonce),
                     plaintext |-> plaintext, key |-> <<>>, passphrase |-> passphrase,
                     salt |-> salt, nonce |-> nonce]
    /\ unsealed' = NotUnsealed
    /\ UNCHANGED argon2
    /\ UNCHANGED notEnvelopeVars

\* an envelope with another header: cut short, with another magic, with a
\* byte t put after the magic, with its mode byte or its KDF id byte
\* replaced, with a time cost of zero
HeaderVariants(d) ==
    { <<>>, SubSeq(MAGIC, 1, 4), MAGIC, MAGIC \o <<MODE_PASSPHRASE>>,
      [d EXCEPT ![1] = 110], [d EXCEPT ![5] = 50] }
    \cup { MAGIC \o <<t>> \o SliceFrom(d, Len(MAGIC)) : t \in {0, 1, 2} }
    \cup { [d EXCEPT ![Len(MAGIC) + 1] = t] : t \in {0, 2} }
    \cup { [d EXCEPT ![Len(MAGIC) + 2] = t] : t \in {0, 2} }
    \cup { [d EXCEPT ![Len(MAGIC) + 3] = 0] }

\* the byte strings handed to unseal_*: the envelope sealed, and that
\* envelope with another header
UnsealInputs ==
    IF sealed.result.ok
    THEN {sealed.result.data} \cup HeaderVariants(sealed.result.data)
    ELSE {}

\* byte b with bit k flipped
FlipBit(b, k) == IF (b \div Pow2(k)) % 2 = 1 THEN b - Pow2(k) ELSE b + Pow2(k)

\* the positions of a sealed envelope past its header: the nonce and the
\* ciphertext with its tag, and in a passphrase envelope the salt before them
TamperPositions ==
    IF ~sealed.result.ok THEN {}
    ELSE IF sealed.mode = "key"
    THEN (Len(MAGIC) + 1)..Len(sealed.result.data)
    ELSE (Len(MAGIC) + 10)..Len(sealed.result.data)

\* a call of unseal_with_key
UnsealWithKey(data, key) ==
    /\ unsealed.mode = "none"
    /\ unsealed' = [mode |-> "key", result |-> unseal_with_key(data, key),
                    input |-> data, key |-> key, passphrase |-> <<>>]
    /\ UNCHANGED <<argon2, sealed>>
    /\ UNCHANGED notEnvelopeVars

\* a call of unseal_with_passphrase
UnsealWithPassphrase(data, passphrase) ==
    /\ unsealed.mode = "none"
    /\ unsealed' = [mode |-> "passphrase",
                    result |-> unseal_with_passphrase(data, passphrase),
                    input |-> data, key |-> <<>>, passphrase |-> passphrase]
    /\ UNCHANGED <<argon2, sealed>>
    /\ UNCHANGED notEnvelopeVars

\* the sealed envelope with one bit flipped, handed to the unseal_* of its
\* profile together with the key or passphrase it was sealed with
UnsealTampered(i, k) ==
    /\ unsealed.mode = "none"
    /\ LET d == [sealed.result.data EXCEPT ![i] = FlipBit(sealed.result.data[i], k)]
       IN  unsealed' =
               IF sealed.mode = "key"
               THEN [mode |-> "key", result |-> unseal_with_key(d, sealed.key),
                     input |-> d, key |-> sealed.key, passphrase |-> <<>>]
               ELSE [mode |-> "passphrase",
                     result |-> unseal_with_passphrase(d, sealed.passphrase),
                     input |-> d, key |-> <<>>, passphrase |-> sealed.passphrase]
    /\ UNCHANGED <<argon2, sealed>>
    /\ UNCHANGED notEnvelopeVars

NextEnvelope ==
    \/ \E pt \in Plaintexts, k \in Keys : SealWithKey(pt, k)
    \/ \E pt \in Plaintexts, pw \in Passphrases : SealWithPassphrase(pt, pw)
    \/ \E d \in UnsealInputs, k \in Keys : UnsealWithKey(d, k)
    \/ \E d \in UnsealInputs, pw \in Passphrases : UnsealWithPassphrase(d, pw)
    \/ \E i \in TamperPositions, k \in 0..7 : UnsealTampered(i, k)

----------------------------------------------------------------------------
(* io/fs.py: locating the local store.  A path is a directory and a file    *)
(* name; a directory itself has the empty name.                             *)

DEFAULT_LOCAL_STORE_FILENAME == "noctivault.local-store.yaml"
DEFAULT_REFERENCE_FILENAME == "noctivault.yaml"
DEFAULT_LOCAL_STORE_ENC_FILENAME == "noctivault.local-store.yaml.enc"

\* Path(dir) / name, Path(p).parent, Path(p).name
Path(dir, name) == [dir |-> dir, name |-> name]
Parent(p) == Path(p.dir, "")
Name(p) == p.name

\* the directories of the file system: the project directory, a directory of
\* key files, and ~/.config/noctivault
ProjectDir == Path("project", "")
KeysDir == Path("keys", "")
HomeConfigDir == Path("~/.config/noctivault", "")
Dirs == {ProjectDir, KeysDir, HomeConfigDir}

\* the files the loader may look at
StoreEncPath == Path("project", DEFAULT_LOCAL_STORE_ENC_FILENAME)
StorePlainPath == Path("project", DEFAULT_LOCAL_STORE_FILENAME)
ReferencePath == Path("project", DEFAULT_REFERENCE_FILENAME)
OtherPath == Path("project", "store.yaml")
LocalKeyPath == Path("project", "local.key")
DefaultKeyPath == Path("~/.config/noctivault", "local.key")
SettingsKeyPath == Path("keys", "settings.key")
EnvKeyPath == Path("keys", "env.key")
FilePaths ==
    {StoreEncPath, StorePlainPath, ReferencePath, OtherPath, LocalKeyPath,
     DefaultKeyPath, SettingsKeyPath, EnvKeyPath}

\* a file system entry
File(data) == [exists |-> TRUE, data |-> data]
NoFile == [exists |-> FALSE, data |-> <<>>]

\* Path.is_dir, Path.is_file, Path.exists
IsDir(p) == p \in Dirs
IsFile(fs, p) == p \in DOMAIN fs /\ fs[p].exists
Exists(fs, p) == IsDir(p) \/ IsFile(fs, p)

\* Path.read_bytes: [ok, err, data]
ReadOk(data) == [ok |-> TRUE, err |-> "none", data |-> data]
ReadErr(err) == [ok |-> FALSE, err |-> err, data |-> <<>>]
read_bytes(fs, p) ==
    IF IsFile(fs, p) THEN ReadOk(fs[p].data)
    ELSE IF IsDir(p) THEN ReadErr("IsADirectoryError")
    ELSE ReadErr("FileNotFoundError")

\* what the resolve_* functions return or raise: [ok, err, kind, path]
Located(kind, p) == [ok |-> TRUE, err |-> "none", kind |-> kind, path |-> p]
NotLocated(err) == [ok |-> FALSE, err |-> err, kind |-> "none", path |-> Path("", "")]

resolve_local_store_source(fs, b) ==
    IF IsDir(b)
    THEN LET enc   == Path(b.dir, DEFAULT_LOCAL_STORE_ENC_FILENAME)
             plain == Path(b.dir, DEFAULT_LOCAL_STORE_FILENAME)
         IN  IF Exists(fs, enc) THEN Located("enc", enc)
             ELSE IF Exists(fs, plain) THEN Located("yaml", plain)
             ELSE NotLocated("FileNotFoundError")
    ELSE IF IsFile(fs, b)
    THEN IF Name(b) = DEFAULT_LOCAL_STORE_ENC_FILENAME THEN Located("enc", b)
         ELSE IF Name(b) = DEFAULT_LOCAL_STORE_FILENAME THEN Located("yaml", b)
         ELSE NotLocated("FileNotFoundError")
    ELSE NotLocated("FileNotFoundError")

resolve_reference_path(fs, b) ==
    IF IsDir(b)
    THEN LET candidate == Path(b.dir, DEFAULT_REFERENCE_FILENAME)
         IN  IF Exists(fs, candidate) THEN Located("yaml", candidate)
             ELSE NotLocated("FileNotFoundError")
    ELSE IF IsFile(fs, b) THEN Located("yaml", b)
    ELSE NotLocated("FileNotFoundError")

----------------------------------------------------------------------------
(* io/yaml.py and the schema: what a document parses and validates to *)

\* the documents on disk: a plaintext store "p", the store "e" that is kept
\* sealed, and the reference file "r"
TxtStoreP == <<112>>
TxtStoreE == <<101>>
TxtRefs   == <<114>>

\* the entries the reference document declares: port (int) under the key a
RefEntries == << LeafEntry(Ref(TxtA, TxtPort, Ver(1), "int")) >>

\* what yaml.safe_load(text) or {} gives: a mapping with its keys
\* "secret-mocks" and "secret-refs", or a scalar
Mapping(mocks, idx, entries) ==
    [kind |-> "mapping", mocks |-> mocks, index |-> idx, entries |-> entries]
Scalar == [kind |-> "scalar", mocks |-> FALSE, index |-> <<>>, entries |-> <<>>]

safe_load(text) ==
    IF text = <<>> THEN Mapping(FALSE, <<>>, <<>>)
    ELSE IF text = TxtStoreP THEN Mapping(TRUE, MockIndexA, <<>>)
    ELSE IF text = TxtStoreE THEN Mapping(TRUE, MockIndexB, <<>>)
    ELSE IF text = TxtRefs THEN Mapping(FALSE, <<>>, RefEntries)
    ELSE Scalar

\* read_yaml_text(text) and read_yaml(path): [ok, err, data]
YamlOk(d) == [ok |-> TRUE, err |-> "none", data |-> d]
YamlErr(e) == [ok |-> FALSE, err |-> e, data |-> Scalar]

read_yaml_text(text) == YamlOk(safe_load(text))

read_yaml(fs, p) ==
    LET r == read_bytes(fs, p)
        t == Utf8Decode(r.data)
    IN  IF ~r.ok THEN YamlErr(r.err)
        ELSE IF ~t.ok THEN YamlErr("UnicodeDecodeError")
        ELSE read_yaml_text(t.text)

----------------------------------------------------------------------------
(* app/resolver.py: resolve as one call, for the callers of the resolver *)

RECURSIVE ResolveLoop(_, _, _, _)
ResolveLoop(idx, rs, i, tree) ==
    IF i > Len(rs) THEN RNode(tree)
    ELSE LET e   == rs[i]
             f   == MockFetch(idx, e.ref.platform, e.ref.gcp_project_id,
                              e.ref.ref, e.ref.version)
             val == SecretValue(f.value, e.ref.type)
             c   == Cast(val)
             pl  == Place(tree, e.path, val)
         IN  IF ~f.ok THEN RMissing(e.ref, f)
             ELSE IF ~c.ok THEN RError("TypeCastError", val.raw)
             ELSE IF ~pl.ok THEN RError(pl.err, pl.arg)
             ELSE ResolveLoop(idx, rs, i + 1, pl.tree)

resolve(idx, arg) ==
    IF ~HasSecretRefs(arg) THEN RError("AttributeError", <<>>)
    ELSE ResolveLoop(idx,
                     IF arg.none \/ arg.entries = <<>> THEN <<>>
                     ELSE Flatten(arg.entries),
                     1, Dict(EmptyItems))

----------------------------------------------------------------------------
(* client.py: Noctivault.load and the key material it looks for *)

\* Optional[str] fields and os.getenv results
NoPath == [none |-> TRUE, value |-> Path("", "")]
SomePath(p) == [none |-> FALSE, value |-> p]
NoText == [none |-> TRUE, value |-> <<>>]
SomeText(t) == [none |-> FALSE, value |-> t]

\* truthiness of an Optional[str]: None and "" are false
TruthyPath(o) == ~o.none /\ o.value # Path("", "")
TruthyText(o) == ~o.none /\ o.value # <<>>

\* LocalEncSettings, and NoctivaultSettings.local_enc = None
LocalEncSettings(mode, keyFilePath, passphrase) ==
    [present |-> TRUE, mode |-> mode, key_file_path |-> keyFilePath,
     passphrase |-> passphrase]
NoLocalEnc ==
    [present |-> FALSE, mode |-> "key-file", key_file_path |-> NoPath,
     passphrase |-> NoText]
NoctivaultSettings(source, localEnc) == [source |-> source, local_enc |-> localEnc]

\* the environment
Environ(keyFile, passphrase) ==
    [NOCTIVAULT_LOCAL_KEY_FILE |-> keyFile, NOCTIVAULT_LOCAL_PASSPHRASE |-> passphrase]

\* Path.expanduser
expanduser(p) ==
    IF p.dir = "~" THEN Path("/home/user", p.name)
    ELSE p

\* _load_local_key(directory): [ok, err, key, path], path the file it read
KeyOk(k, p) == [ok |-> TRUE, err |-> "none", key |-> k, path |-> p]
KeyErr(e, p) == [ok |-> FALSE, err |-> e, key |-> <<>>, path |-> p]
KeyRead(fs, p) ==
    LET r == read_bytes(fs, p)
    IN  IF r.ok THEN KeyOk(r.data, p) ELSE KeyErr(r.err, p)

load_local_key(fs, st, ev, directory) ==
    LET s       == st.local_enc
        e       == ev.NOCTIVAULT_LOCAL_KEY_FILE
        local   == Path(directory.dir, "local.key")
        default == DefaultKeyPath
    IN  IF s.present /\ TruthyPath(s.key_file_path)
        THEN KeyRead(fs, s.key_file_path.value)
        ELSE IF TruthyPath(e) THEN KeyRead(fs, expanduser(e.value))
        ELSE IF Exists(fs, local) THEN KeyRead(fs, local)
        ELSE IF Exists(fs, default) THEN KeyRead(fs, default)
        ELSE KeyErr("MissingKeyMaterialError", Path("", ""))

\* a mode choice that looks at the settings only
use_passphrase_settings_only(st, ev) ==
    st.local_enc.present /\ st.local_enc.mode = "passphrase"

\* _use_passphrase()
use_passphrase(st, ev) ==
    LET s == st.local_enc
    IN  IF s.present /\ s.mode = "passphrase" THEN TRUE
        ELSE IF TruthyText(ev.NOCTIVAULT_LOCAL_PASSPHRASE) THEN TRUE
        ELSE FALSE

\* _load_local_passphrase(): [ok, err, text, from]
PassOk(t, from) == [ok |-> TRUE, err |-> "none", text |-> t, from |-> from]
PassErr(e) == [ok |-> FALSE, err |-> e, text |-> <<>>, from |-> "none"]

load_local_passphrase(st, ev) ==
    LET s == st.local_enc
        e == ev.NOCTIVAULT_LOCAL_PASSPHRASE
    IN  IF s.present /\ TruthyText(s.passphrase) THEN PassOk(s.passphrase.value, "settings")
        ELSE IF TruthyText(e) THEN PassOk(e.value, "env")
        ELSE PassErr("MissingKeyMaterialError")

\* what load did: the store it chose, the mode and key material it used, the
\* provider index it built, and what it returned or raised
NoLoad ==
    [called |-> FALSE, kind |-> "none", err |-> "none", tree |-> Dict(EmptyItems),
     source |-> "none", path |-> Path("", ""), mode |-> "none",
     keyPath |-> Path("", ""), passFrom |-> "none", passphrase |-> <<>>,
     index |-> <<>>]
LoadRaise(t, e) == [t EXCEPT !.kind = "error", !.err = e]

\* the branch of load that gives "data": read_yaml for a plaintext store,
\* key material, unseal_*, decode and read_yaml_text for an encrypted one.
\* [t, y]: the record of what was used, and the parsed document or the error
StoreData(fs, st, ev, src, t) ==
    IF src.kind = "yaml" THEN [t |-> t, y |-> read_yaml(fs, src.path)]
    ELSE LET enc_bytes == read_bytes(fs, src.path)
         IN  IF ~enc_bytes.ok THEN [t |-> t, y |-> YamlErr(enc_bytes.err)]
             ELSE IF use_passphrase(st, ev)
             THEN LET pw == load_local_passphrase(st, ev)
                      tp == [t EXCEPT !.mode = "passphrase", !.passFrom = pw.from,
                                      !.passphrase = pw.text]
                      plain == unseal_with_passphrase(enc_bytes.data, pw.text)
                      text == Utf8Decode(plain.data)
                  IN  IF ~pw.ok THEN [t |-> tp, y |-> YamlErr(pw.err)]
                      ELSE IF ~plain.ok THEN [t |-> tp, y |-> YamlErr(plain.err)]
                      ELSE IF ~text.ok THEN [t |-> tp, y |-> YamlErr("UnicodeDecodeError")]
                      ELSE [t |-> tp, y |-> read_yaml_text(text.text)]
             ELSE LET key == load_local_key(fs, st, ev, Parent(src.path))
                      tk == [t EXCEPT !.mode = "key-file", !.keyPath = key.path]
                      plain == unseal_with_key(enc_bytes.data, key.key)
                      text == Utf8Decode(plain.data)
                  IN  IF ~key.ok THEN [t |-> tk, y |-> YamlErr(key.err)]
                      ELSE IF ~plain.ok THEN [t |-> tk, y |-> YamlErr(plain.err)]
                      ELSE IF ~text.ok THEN [t |-> tk, y |-> YamlErr("UnicodeDecodeError")]
                      ELSE [t |-> tk, y |-> read_yaml_text(text.text)]

\* the rest of load once the store document is parsed: the two validations,
\* the provider, the resolver
LoadResolve(fs, ref, t, data) ==
    LET refs_data == read_yaml(fs, ref.path)
        ti        == [t EXCEPT !.index = data.index]
        node      == resolve(data.index, Arg("list", FALSE, refs_data.data.entries))
    IN  IF data.kind # "mapping" THEN LoadRaise(t, "AttributeError")
        ELSE IF data.entries # <<>> THEN LoadRaise(t, "CombinedConfigNotAllowedError")
        ELSE IF ~data.mocks THEN LoadRaise(t, "ValidationError")
        ELSE IF ~refs_data.ok THEN LoadRaise(t, refs_data.err)
        ELSE IF refs_data.data.kind # "mapping" THEN LoadRaise(t, "AttributeError")
        ELSE IF refs_data.data.mocks THEN LoadRaise(t, "CombinedConfigNotAllowedError")
        ELSE IF refs_data.data.entries = <<>> THEN LoadRaise(t, "ValidationError")
        ELSE IF node.kind = "error" THEN LoadRaise(ti, node.err)
        ELSE [ti EXCEPT !.kind = "node", !.tree = node.tree]

\* Noctivault.load(local_store_path) with reference_path = None
load(fs, st, ev, b) ==
    LET t0  == [NoLoad EXCEPT !.called = TRUE]
        src == resolve_local_store_source(fs, b)
        t1  == [t0 EXCEPT !.source = src.kind, !.path = src.path]
        ref == resolve_reference_path(fs, Parent(src.path))
        sd  == StoreData(fs, st, ev, src, t1)
    IN  IF st.source # "local" THEN LoadRaise(t0, "NotImplementedError")
        ELSE IF ~src.ok THEN LoadRaise(t0, src.err)
        ELSE IF ~ref.ok THEN LoadRaise(t1, ref.err)
        ELSE IF ~sd.y.ok THEN LoadRaise(sd.t, sd.y.err)
        ELSE LoadResolve(fs, ref, sd.t, sd.y.data)

----------------------------------------------------------------------------
(* client.py: the client's state, get and display_hash *)

\* the paths of the leaves below a tree, as lists of segments
RECURSIVE WalkPaths(_)
WalkPaths(x) ==
    IF x.kind # "dict" THEN {<<>>}
    ELSE UNION { { <<k>> \o p : p \in WalkPaths(x.items[k]) } : k \in DOMAIN x.items }

RECURSIVE LeafOf(_, _)
LeafOf(x, path) == IF path = <<>> THEN x ELSE LeafOf(x.items[path[1]], Tail(path))

\* walk([], node): one index entry per ".".join(prefix) of a SecretValue.
\* Leaves that share a joined path share the entry.
walk(tree) ==
    LET paths == WalkPaths(tree)
    IN  [ k \in {Join(p) : p \in paths} |->
            LeafOf(tree, CHOOSE p \in paths : Join(p) = k) ]

\* the dataclass defaults: nothing loaded
NoClient == [loaded |-> FALSE, secrets |-> Dict(EmptyItems), index |-> <<>>]

\* the three assignments at the end of load; index holds _raw_index and
\* _type_index as the raw and the type of the leaf
ClientOf(tree) == [loaded |-> TRUE, secrets |-> tree, index |-> walk(tree)]

NoGot == [op |-> "none", path |-> <<>>, kind |-> "none", err |-> "none",
          value |-> PyStr(<<>>)]
GotReturn(op, path, v) == [NoGot EXCEPT !.op = op, !.path = path, !.kind = "return", !.value = v]
GotRaise(op, path, e)  == [NoGot EXCEPT !.op = op, !.path = path, !.kind = "raise", !.err = e]

\* _ensure_loaded
ensure_loaded(c) == c.loaded

\* get(path)
get(c, path) ==
    IF ~ensure_loaded(c) THEN GotRaise("get", path, "RuntimeError")
    ELSE IF path \notin DOMAIN c.index THEN GotRaise("get", path, "KeyError")
    ELSE LET v == c.index[path]
         IN  IF v.type = "int"
             THEN IF ParseInt(v.raw).ok
                  THEN GotReturn("get", path, PyInt(ParseInt(v.raw).val))
                  ELSE GotRaise("get", path, "ValueError")
             ELSE GotReturn("get", path, PyStr(v.raw))

\* hashlib.sha3_256(raw.encode("utf-8")).hexdigest(), as the digest of the bytes
Sha3Hex(bytes) == [kind |-> "sha3_256", of |-> bytes]

\* display_hash(path)
display_hash(c, path) ==
    IF ~ensure_loaded(c) THEN GotRaise("display_hash", path, "RuntimeError")
    ELSE IF path \notin DOMAIN c.index THEN GotRaise("display_hash", path, "KeyError")
    ELSE GotReturn("display_hash", path, Sha3Hex(Utf8Encode(c.index[path].raw)))

\* the paths get and display_hash are called with: the leaf the reference
\* document declares, and a path it does not declare
GetPaths == {TxtA, TxtZz}

----------------------------------------------------------------------------
(* The loader's environment: files, settings, process environment *)

\* "pw", "pé": the passphrase the store is sealed with, and another one
TxtPw   == <<112, 119>>
TxtPass == <<112, 233>>

StoreNonce == [i \in 1..NONCE_SIZE |-> 160 + i]
StoreSalt  == [i \in 1..SaltSize |-> 200 + i]

\* the sealed store "e", sealed with the key KeyA or with the passphrase "pw"
SealedWithKey == seal_with_key(Utf8Encode(TxtStoreE), KeyA, StoreNonce).data
SealedWithPassphrase ==
    seal_with_passphrase(Utf8Encode(TxtStoreE), TxtPw, StoreSalt, StoreNonce).data

\* a file that is absent or holds the given bytes
Maybe(data) == {NoFile, File(data)}

\* the key files hold KeyA, but the one in the home directory holds KeyB
FileSystems ==
    { (StoreEncPath :> enc) @@ (StorePlainPath :> plain) @@ (ReferencePath :> ref)
      @@ (OtherPath :> File(Utf8Encode(TxtStoreP)))
      @@ (LocalKeyPath :> lk) @@ (DefaultKeyPath :> dk)
      @@ (SettingsKeyPath :> sk) @@ (EnvKeyPath :> ek) :
        enc \in {NoFile, File(SealedWithKey), File(SealedWithPassphrase)},
        plain \in Maybe(Utf8Encode(TxtStoreP)),
        ref \in Maybe(Utf8Encode(TxtRefs)),
        lk \in Maybe(KeyA), dk \in Maybe(KeyB),
        sk \in Maybe(KeyA), ek \in Maybe(KeyA) }

LocalEncs ==
    {NoLocalEnc}
    \cup { LocalEncSettings(m, k, p) :
             m \in {"key-file", "passphrase"},
             k \in {NoPath, SomePath(SettingsKeyPath)},
             p \in {NoText, SomeText(<<>>), SomeText(TxtPw)} }

Environs ==
    { Environ(k, p) :
        k \in {NoPath, SomePath(EnvKeyPath)},
        p \in {NoText, SomeText(<<>>), SomeText(TxtPw), SomeText(TxtPass)} }

\* local_store_path: the directory, a file in it, or a path that is not there
Bases == {ProjectDir, StoreEncPath, StorePlainPath, OtherPath, Path("nowhere", "")}

NotLocatedYet == NotLocated("none")

InitLoad ==
    /\ files \in FileSystems
    /\ \/ /\ base = ProjectDir
          /\ settings \in {NoctivaultSettings("local", l) : l \in LocalEncs}
          /\ env \in Environs
       \/ /\ base \in Bases
          /\ settings \in {NoctivaultSettings(s, NoLocalEnc) : s \in {"local", "remote"}}
          /\ env = Environ(NoPath, NoText)
    /\ located = NotLocatedYet
    /\ loaded = NoLoad
    /\ client = NoClient
    /\ got = NoGot

\* a call of resolve_local_store_source(base)
LocateSource ==
    /\ located = NotLocatedYet
    /\ located' = resolve_local_store_source(files, base)
    /\ UNCHANGED <<files, settings, env, base, loaded, client, got>>
    /\ UNCHANGED notLoadVars

\* a call of Noctivault(settings).load(base)
Load ==
    /\ ~loaded.called
    /\ loaded' = load(files, settings, env, base)
    /\ client' = IF loaded'.kind = "node" THEN ClientOf(loaded'.tree) ELSE client
    /\ UNCHANGED <<files, settings, env, base, located, got>>
    /\ UNCHANGED notLoadVars

\* a call of get(path) on the client
ClientGet(path) ==
    /\ got.op = "none"
    /\ got' = get(client, path)
    /\ UNCHANGED <<files, settings, env, base, located, loaded, client>>
    /\ UNCHANGED notLoadVars

\* a call of display_hash(path) on the client
DisplayHash(path) ==
    /\ got.op = "none"
    /\ got' = display_hash(client, path)
    /\ UNCHANGED <<files, settings, env, base, located, loaded, client>>
    /\ UNCHANGED notLoadVars

NextLoad ==
    \/ LocateSource
    \/ Load
    \/ \E path \in GetPaths : ClientGet(path)
    \/ \E path \in GetPaths : DisplayHash(path)

----------------------------------------------------------------------------
(* cli.py: seal, unseal, verify *)

\* the arguments of the helpers
CliArgs(encPath, keyFilePath, passphrase) ==
    [enc_path |-> encPath, key_file_path |-> keyFilePath, passphrase |-> passphrase]
NoCliArgs == CliArgs(Path("", ""), NoPath, NoText)

\* _resolve_plain_path(base): [ok, err, kind, path]
resolve_plain_path(fs, b) ==
    IF IsDir(b)
    THEN LET plain == Path(b.dir, DEFAULT_LOCAL_STORE_FILENAME)
         IN  IF ~Exists(fs, plain) THEN NotLocated("FileNotFoundError")
             ELSE Located("yaml", plain)
    ELSE IF IsFile(fs, b)
    THEN IF Name(b) # DEFAULT_LOCAL_STORE_FILENAME THEN NotLocated("FileNotFoundError")
         ELSE Located("yaml", b)
    ELSE NotLocated("FileNotFoundError")

\* Path.write_bytes
write_bytes(fs, p, data) == [fs EXCEPT ![p] = File(data)]

\* Path.unlink
unlink(fs, p) == [fs EXCEPT ![p] = NoFile]

\* seal(base, key_file_path=, passphrase=, out=None, rm_plain=, force=) with
\* salt and nonce the values os.urandom returns: [ok, err, fs], fs the file
\* system it leaves
SealDone(fs) == [ok |-> TRUE, err |-> "none", fs |-> fs]
SealFailed(e, fs) == [ok |-> FALSE, err |-> e, fs |-> fs]

cli_seal(fs, b, kf, pw, rm_plain, force, salt, nonce) ==
    LET plain    == resolve_plain_path(fs, b)
        out_path == Path(Parent(plain.path).dir, DEFAULT_LOCAL_STORE_ENC_FILENAME)
        pt       == read_bytes(fs, plain.path)
        key      == read_bytes(fs, kf.value)
        enc      == IF ~pw.none THEN seal_with_passphrase(pt.data, pw.value, salt, nonce)
                    ELSE seal_with_key(pt.data, key.data, nonce)
        written  == write_bytes(fs, out_path, enc.data)
    IN  IF ~plain.ok THEN SealFailed(plain.err, fs)
        ELSE IF Exists(fs, out_path) /\ ~force THEN SealFailed("FileExistsError", fs)
        ELSE IF ~pt.ok THEN SealFailed(pt.err, fs)
        ELSE IF ~pw.none /\ ~kf.none THEN SealFailed("ValueError", fs)
        ELSE IF pw.none /\ kf.none THEN SealFailed("ValueError", fs)
        ELSE IF pw.none /\ ~key.ok THEN SealFailed(key.err, fs)
        ELSE IF ~enc.ok THEN SealFailed(enc.err, fs)
        ELSE IF rm_plain THEN SealDone(unlink(written, plain.path))
        ELSE SealDone(written)

\* unseal(enc_path, key_file_path=, passphrase=): what unseal_* gives, or the
\* error raised before it is called
cli_unseal(fs, a) ==
    LET data == read_bytes(fs, a.enc_path)
        key  == read_bytes(fs, a.key_file_path.value)
    IN  IF ~data.ok THEN EnvErr(data.err)
        ELSE IF ~a.passphrase.none /\ ~a.key_file_path.none THEN EnvErr("ValueError")
        ELSE IF ~a.passphrase.none
        THEN unseal_with_passphrase(data.data, a.passphrase.value)
        ELSE IF a.key_file_path.none THEN EnvErr("ValueError")
        ELSE IF ~key.ok THEN EnvErr(key.err)
        ELSE unseal_with_key(data.data, key.data)

\* what verify returns or raises
VerifyReturn(b) == [kind |-> "return", value |-> b, err |-> "none"]
VerifyRaise(e) == [kind |-> "raise", value |-> FALSE, err |-> e]

\* a verify whose except clause catches everything
cli_verify_catch_all(fs, a) ==
    IF cli_unseal(fs, a).ok THEN VerifyReturn(TRUE) ELSE VerifyReturn(FALSE)

\* verify(enc_path, key_file_path=, passphrase=)
cli_verify(fs, a) ==
    LET u == cli_unseal(fs, a)
    IN  IF u.ok THEN VerifyReturn(TRUE)
        ELSE IF u.err \in {"InvalidEncHeaderError", "DecryptError"} THEN VerifyReturn(FALSE)
        ELSE VerifyRaise(u.err)

\* the last helper call
NoCliCall == [op |-> "none", kind |-> "none", value |-> FALSE, err |-> "none", data |-> <<>>]
CliCall(op, kind, value, err, data) ==
    [op |-> op, kind |-> kind, value |-> value, err |-> err, data |-> data]

\* an envelope cut right after its mode byte
TruncatedEnvelope == MAGIC \o <<MODE_PASSPHRASE>>

\* the files the helpers find: an encrypted store that is absent, sealed with
\* KeyA, sealed with "pw" or cut short; a plaintext store; local.key holding
\* KeyA; another key file holding KeyB
CliFileSystems ==
    { (StoreEncPath :> enc) @@ (StorePlainPath :> plain) @@ (ReferencePath :> NoFile)
      @@ (OtherPath :> File(Utf8Encode(TxtStoreP)))
      @@ (LocalKeyPath :> lk) @@ (DefaultKeyPath :> NoFile)
      @@ (SettingsKeyPath :> File(KeyB)) @@ (EnvKeyPath :> NoFile) :
        enc \in {NoFile, File(SealedWithKey), File(SealedWithPassphrase),
                 File(TruncatedEnvelope)},
        plain \in Maybe(Utf8Encode(TxtStoreP)),
        lk \in Maybe(KeyA) }

CliArgSets ==
    { CliArgs(e, k, p) :
        e \in {StoreEncPath, OtherPath, ProjectDir},
        k \in {NoPath, SomePath(LocalKeyPath), SomePath(SettingsKeyPath)},
        p \in {NoText, SomeText(TxtPw), SomeText(TxtPass)} }

\* the nonces os.urandom may give seal: one starting with 0xa1, one with 0x01
CliNonces == {StoreNonce, [i \in 1..NONCE_SIZE |-> IF i = 1 THEN 1 ELSE 5 * i]}

InitCli ==
    /\ files \in CliFileSystems
    /\ cliArgs \in CliArgSets
    /\ cliCall = NoCliCall

\* seal(project directory) with the key material of the arguments
CliSeal(rm_plain, force) ==
    /\ \E nonce \in CliNonces :
          LET r == cli_seal(files, ProjectDir, cliArgs.key_file_path, cliArgs.passphrase,
                            rm_plain, force, StoreSalt, nonce)
          IN  /\ files' = r.fs
              /\ cliCall' = CliCall("seal", IF r.ok THEN "return" ELSE "raise",
                                    FALSE, r.err, <<>>)
    /\ UNCHANGED cliArgs
    /\ UNCHANGED notCliVars

\* unseal(enc_path, ...)
CliUnseal ==
    /\ LET u == cli_unseal(files, cliArgs)
       IN  cliCall' = CliCall("unseal", IF u.ok THEN "return" ELSE "raise",
                              FALSE, u.err, u.data)
    /\ UNCHANGED <<files, cliArgs>>
    /\ UNCHANGED notCliVars

\* verify(enc_path, ...)
CliVerify ==
    /\ LET v == cli_verify(files, cliArgs)
       IN  cliCall' = CliCall("verify", v.kind, v.value, v.err, <<>>)
    /\ UNCHANGED <<files, cliArgs>>
    /\ UNCHANGED notCliVars

NextCli ==
    \/ \E rm_plain \in BOOLEAN, force \in BOOLEAN : CliSeal(rm_plain, force)
    \/ CliUnseal
    \/ CliVerify

----------------------------------------------------------------------------
(* Specifications: one per subsystem, the others idle *)

IdleFetch ==
    /\ gexc = GexcNone
    /\ fpc = "idle"
    /\ farg = NoArg
    /\ resource = <<>>
    /\ attempts = 0
    /\ sleeps = <<>>
    /\ history = <<>>
    /\ fresult = NoResult
    /\ nfetch = 0

IdleResolve ==
    /\ index = MockIndexA
    /\ rpc = "idle"
    /\ rarg = ConfigArgNoRefs
    /\ refs = <<>>
    /\ rnext = 1
    /\ out = Dict(EmptyItems)
    /\ fetchLog = <<>>
    /\ rresult = RNone
    /\ view = NoView

IdleEnvelope ==
    /\ argon2 = TRUE
    /\ sealed = NotSealed
    /\ unsealed = NotUnsealed

IdleMocks ==
    /\ pindex = MockStoreA
    /\ pcall = NoCall

IdleLoad ==
    /\ files = [p \in FilePaths |-> NoFile]
    /\ settings = NoctivaultSettings("local", NoLocalEnc)
    /\ env = Environ(NoPath, NoText)
    /\ base = ProjectDir
    /\ located = NotLocatedYet
    /\ loaded = NoLoad
    /\ client = NoClient
    /\ got = NoGot

IdleCli ==
    /\ cliArgs = NoCliArgs
    /\ cliCall = NoCliCall

\* the loader's variables while the helpers run: all but the file system
IdleLoader ==
    /\ settings = NoctivaultSettings("local", NoLocalEnc)
    /\ env = Environ(NoPath, NoText)
    /\ base = ProjectDir
    /\ located = NotLocatedYet
    /\ loaded = NoLoad
    /\ client = NoClient
    /\ got = NoGot

InitCliSpec ==
    IdleFetch /\ IdleResolve /\ IdleEnvelope /\ IdleMocks /\ IdleLoader /\ InitCli

InitFetchSpec == InitFetch /\ IdleResolve /\ IdleEnvelope /\ IdleMocks /\ IdleLoad /\ IdleCli

InitResolveSpec == InitResolve /\ IdleFetch /\ IdleEnvelope /\ IdleMocks /\ IdleLoad /\ IdleCli

InitEnvelopeSpec == InitEnvelope /\ IdleFetch /\ IdleResolve /\ IdleMocks /\ IdleLoad /\ IdleCli

InitMocksSpec == InitMocks /\ IdleFetch /\ IdleResolve /\ IdleEnvelope /\ IdleLoad /\ IdleCli

InitLoadSpec == IdleFetch /\ IdleResolve /\ IdleEnvelope /\ IdleMocks /\ InitLoad /\ IdleCli

SpecFetch == InitFetchSpec /\ [][NextFetch]_vars

SpecResolve == InitResolveSpec /\ [][NextResolve]_vars

SpecEnvelope == InitEnvelopeSpec /\ [][NextEnvelope]_vars

SpecMocks == InitMocksSpec /\ [][NextMocks]_vars

SpecLoad == InitLoadSpec /\ [][NextLoad]_vars

SpecCli == InitCliSpec /\ [][NextCli]_vars

----------------------------------------------------------------------------
(* Remote provider: properties *)

IsRaise(o) == o.kind = "raise"

\* the number of backend calls of this fetch that raised
NFail == Cardinality({i \in DOMAIN history : IsRaise(history[i])})

LastOutcome == history[Len(history)]

\* 0.2 s, 0.4 s, 0.8 s
Sleeps5xx == << [s |-> 0, n |-> 200000000], [s |-> 0, n |-> 400000000],
                [s |-> 0, n |-> 800000000] >>

\* 1.0 s, 2.0 s, 4.0 s
Sleeps429 == << [s |-> 1, n |-> 0], [s |-> 2, n |-> 0], [s |-> 4, n |-> 0] >>

\* b"hello" decoded
TxtHello == <<104, 101, 108, 108, 111>>

\* every failed call so far was an instance of one of the classes `names`
AllFailuresIn(names) ==
    /\ gexc.present
    /\ history # <<>>
    /\ \A i \in DOMAIN history :
          IsRaise(history[i]) => IsInstanceAny(history[i], gexc, names)

\* the decoded text of a payload that is valid UTF-8
ValidText(o) == o.kind = "ok" /\ Utf8Decode(o.data).ok

\* C4: when every failed backend call of a fetch is a 5xx-class error, the
\* k-th failure (k <= 3) is followed by a sleep of exactly 0.2 * 2^(k-1) s
\* and another backend call; a success returns its payload; a fourth
\* consecutive 5xx failure raises RemoteUnavailableError with no further
\* sleep.  [ServiceUnavailable, InternalServerError, success] gives the
\* sleeps [0.2, 0.4], 3 backend calls and the payload.
C4_Retry5xxBackoff ==
    AllFailuresIn(Cls5xx) =>
        /\ NFail <= 4
        /\ sleeps = SubSeq(Sleeps5xx, 1, Min(NFail, 3))
        /\ attempts = Len(history)
        /\ (IsRaise(LastOutcome) /\ NFail <= 3) =>
              (fpc = "call" /\ fresult = NoResult)
        /\ (IsRaise(LastOutcome) /\ NFail = 4) =>
              (fpc = "done" /\ fresult = Raised("RemoteUnavailableError"))
        /\ ValidText(LastOutcome) =>
              (fpc = "done" /\ fresult = Returned(Utf8Decode(LastOutcome.data).text))
        /\ ( /\ Len(history) = 3
             /\ history[1].cls = "ServiceUnavailable"
             /\ history[2].cls = "InternalServerError"
             /\ history[3] = OkOutcome(TxtHello) ) =>
              /\ sleeps = << [s |-> 0, n |-> 200000000], [s |-> 0, n |-> 400000000] >>
              /\ fresult = Returned(TxtHello)

C4_Witness ==
    /\ gexc.present
    /\ Len(history) = 3
    /\ history[1].cls = "ServiceUnavailable"
    /\ history[2].cls = "InternalServerError"
    /\ history[3] = OkOutcome(TxtHello)
    /\ fpc = "done"
    /\ Len(sleeps) = 2

\* C5: when the first backend call fails with not-found, fetch sleeps once
\* for 0.2 s and retries once: [NotFound, success] returns the payload after
\* exactly 2 calls and 1 sleep; [NotFound, NotFound] raises
\* MissingRemoteSecretError after exactly 2 calls, never a third.
C5_NotFoundRetriedOnce ==
    (gexc.present /\ history # <<>> /\ IsInstance(history[1], gexc, "NotFound")) =>
        /\ sleeps # <<>> /\ sleeps[1] = [s |-> 0, n |-> 200000000]
        /\ Len(history) = 1 => (fpc = "call" /\ Len(sleeps) = 1)
        /\ (Len(history) >= 2 /\ ValidText(history[2])) =>
              /\ Len(history) = 2 /\ Len(sleeps) = 1 /\ fpc = "done"
              /\ fresult = Returned(Utf8Decode(history[2].data).text)
        /\ (Len(history) >= 2 /\ IsInstance(history[2], gexc, "NotFound")) =>
              /\ Len(history) = 2 /\ Len(sleeps) = 1 /\ fpc = "done"
              /\ fresult = Raised("MissingRemoteSecretError")

C5_Witness ==
    /\ gexc.present
    /\ Len(history) = 2
    /\ history[1].cls = "NotFound"
    /\ history[2].cls = "NotFound"
    /\ fresult = Raised("MissingRemoteSecretError")

\* the retry-after duration a rate-limit error carries, when it carries one
\* that is greater than zero
HasRetryAfter(o) ==
    /\ o.ri.present /\ o.ri.hasSeconds
    /\ o.ri.seconds * NanosPerSecond + o.ri.nanos > 0

RetryAfter(o) ==
    LET t == o.ri.seconds * NanosPerSecond + o.ri.nanos
    IN  [s |-> t \div NanosPerSecond, n |-> t % NanosPerSecond]

\* C6: when every failed backend call of a fetch is rate-limited, the sleep
\* after the k-th failure (k <= 3) is the backend's retry-after duration if
\* present and > 0, else 1.0 * 2^(k-1) s; a success returns its payload; a
\* fourth consecutive rate-limit failure raises RemoteUnavailableError.
C6_RateLimitDelays ==
    AllFailuresIn({"ResourceExhausted"}) =>
        /\ NFail <= 4
        /\ Len(sleeps) = Min(NFail, 3)
        /\ \A k \in DOMAIN sleeps :
              sleeps[k] = IF HasRetryAfter(history[k]) THEN RetryAfter(history[k])
                          ELSE Sleeps429[k]
        /\ (IsRaise(LastOutcome) /\ NFail <= 3) =>
              (fpc = "call" /\ fresult = NoResult)
        /\ (IsRaise(LastOutcome) /\ NFail = 4) =>
              (fpc = "done" /\ fresult = Raised("RemoteUnavailableError"))
        /\ ValidText(LastOutcome) =>
              (fpc = "done" /\ fresult = Returned(Utf8Decode(LastOutcome.data).text))

C6_Witness ==
    /\ gexc.present
    /\ Len(history) = 4
    /\ history[1] = ExcOutcome("ResourceExhausted", RetryInfo(1, 500000000))
    /\ history[2] = ExcOutcome("ResourceExhausted", NoRetryInfo)
    /\ history[3] = ExcOutcome("ResourceExhausted", RetryInfo(0, 0))
    /\ history[4] = OkOutcome(TxtHello)
    /\ sleeps = << [s |-> 1, n |-> 500000000], [s |-> 2, n |-> 0], [s |-> 4, n |-> 0] >>
    /\ fresult = Returned(TxtHello)

\* the error a terminal backend failure maps to
TerminalError(o) ==
    IF IsInstanceAny(o, gexc, ClsAuth) THEN "AuthorizationError"
    ELSE IF IsInstanceAny(o, gexc, ClsArgument) THEN "RemoteArgumentError"
    ELSE IF IsInstanceAny(o, gexc, ClsDeadline) THEN "RemoteUnavailableError"
    ELSE "none"

\* C7: a backend failure that is a permission/auth, invalid-argument/
\* failed-precondition or deadline-exceeded/gateway-timeout error is never
\* retried, on whichever attempt it occurs: it is the last backend call of
\* the fetch, no sleep follows it, and fetch raises AuthorizationError,
\* RemoteArgumentError or RemoteUnavailableError respectively; a successful
\* call whose payload is not valid UTF-8 raises RemoteDecodeError.
C7_TerminalNotRetried ==
    /\ \A i \in DOMAIN history :
          (gexc.present /\ IsRaise(history[i]) /\ TerminalError(history[i]) # "none") =>
              /\ i = Len(history)
              /\ Len(sleeps) = i - 1
              /\ fpc = "done"
              /\ fresult = Raised(TerminalError(history[i]))
    /\ \A i \in DOMAIN history :
          (history[i].kind = "ok" /\ history[i].data \in {<<255, 254, 0>>, <<195>>}) =>
              /\ i = Len(history)
              /\ fpc = "done"
              /\ fresult = Raised("RemoteDecodeError")

C7_Witness ==
    /\ gexc.present
    /\ Len(history) = 3
    /\ history[1].cls = "ServiceUnavailable"
    /\ history[2].cls = "ResourceExhausted"
    /\ history[3].cls = "DeadlineExceeded"
    /\ fresult = Raised("RemoteUnavailableError")
    /\ Len(sleeps) = 2

\* the errors reserved for envelope decoding and cryptographic authentication
EnvelopeErrors == {"InvalidEncHeaderError", "DecryptError"}

\* C8: a backend failure that matches none of the classified conditions
\* (every failure, when no exception module is available) is never retried,
\* and fetch fails with a generic access-failure error that is not one of
\* the envelope errors InvalidEncHeaderError, DecryptError.
C8_UnclassifiedGenericError ==
    \A i \in DOMAIN history :
        (IsRaise(history[i]) /\ Classify(history[i], gexc) = "unknown") =>
            /\ i = Len(history)
            /\ Len(sleeps) = i - 1
            /\ fpc = "done"
            /\ fresult.kind = "error"
            /\ fresult.err \notin EnvelopeErrors

----------------------------------------------------------------------------
(* Resolver: properties *)

\* the errors resolution itself may end with
ResolutionErrors == {"MissingLocalMockError", "TypeCastError", "DuplicatePathError"}

\* C3: resolve accepts the ordered list of reference entries itself (what
\* Noctivault.load and the tests pass) and returns a SecretNode; for an empty
\* list it returns an empty tree.
C3_ResolveAcceptsEntryList ==
    (rpc = "done" /\ rarg.kind = "list") =>
        /\ rresult.kind = "node" \/ rresult.err \in ResolutionErrors
        /\ rarg.entries = <<>> => rresult = RNode(Dict(EmptyItems))

\* the entry the for loop was processing when resolve raised
FailedEntry == refs[rnext]

\* the destination of path is taken in tree: its last key is already there,
\* or the key of its group holds a leaf
Collides(tree, path) ==
    IF Len(path) = 1 THEN path[1] \in DOMAIN tree.items
    ELSE /\ path[1] \in DOMAIN tree.items
         /\ IF tree.items[path[1]].kind = "leaf" THEN TRUE
            ELSE path[2] \in DOMAIN tree.items[path[1]].items

\* C9: resolve raises DuplicatePathError carrying the dot-joined path
\* whenever an entry's destination collides with a key already placed in the
\* tree: leaf against leaf, and leaf against group key in either declaration
\* order.
C9_CollisionRaisesDuplicatePath ==
    ( /\ rpc = "done"
      /\ rresult.kind = "error"
      /\ rnext <= Len(refs)
      /\ rresult.err \notin {"MissingLocalMockError", "TypeCastError"}
      /\ Collides(out, FailedEntry.path) ) =>
        rresult = RError("DuplicatePathError", Join(FailedEntry.path))

\* mock values that are integer literals for int(), and those that are not
IntegerRaws == {Txt5432, Txt00123, TxtNeg7, Txt4u2}
NonIntegerRaws == {TxtNotInt}

\* the value stored in tree at a path of one or two keys, if any
HasLeafAt(tree, path) ==
    /\ path[1] \in DOMAIN tree.items
    /\ IF Len(path) = 1 THEN tree.items[path[1]].kind = "leaf"
       ELSE /\ tree.items[path[1]].kind = "dict"
            /\ path[2] \in DOMAIN tree.items[path[1]].items
            /\ tree.items[path[1]].items[path[2]].kind = "leaf"

LeafAt(tree, path) ==
    IF Len(path) = 1 THEN tree.items[path[1]]
    ELSE tree.items[path[1]].items[path[2]]

\* every leaf of a tree of depth at most two
LeavesOf(tree) ==
    {tree.items[k] : k \in {x \in DOMAIN tree.items : tree.items[x].kind = "leaf"}}
    \cup UNION { {tree.items[k].items[c] : c \in DOMAIN tree.items[k].items} :
                 k \in {x \in DOMAIN tree.items : tree.items[x].kind = "dict"} }

\* the value the provider holds for a reference
StoredValue(r) ==
    LET versions == index[MockKey(r.platform, r.gcp_project_id, r.ref)]
    IN  IF r.version.latest THEN versions[SetMax(DOMAIN versions)]
        ELSE versions[r.version.n]

RECURSIVE DeclaredCalls(_)
DeclaredCalls(entries) ==
    IF entries = <<>> THEN <<>>
    ELSE LET n == Len(entries)
             e == entries[n]
         IN  DeclaredCalls(SubSeq(entries, 1, n - 1))
             \o (IF e.kind = "group"
                 THEN [i \in 1..Len(e.children) |-> FetchCall(e.children[i])]
                 ELSE <<FetchCall(e.ref)>>)

\* what the provider answers to a recorded call
ProviderAnswer(c) == MockFetch(index, c.platform, c.project, c.name, c.version)

BareLeaves(entries) ==
    {entries[i].ref : i \in {j \in DOMAIN entries : entries[j].kind = "ref"}}
Groups(entries) ==
    {entries[i] : i \in {j \in DOMAIN entries : entries[j].kind = "group"}}
ChildrenOf(g) == {g.children[i] : i \in DOMAIN g.children}

\* the integers the integer mock values denote
IntegerOf(raw) ==
    CASE raw = Txt5432  -> 5432
      [] raw = Txt00123 -> 123
      [] raw = TxtNeg7  -> 0 - 7
      [] raw = Txt4u2   -> 42
      [] OTHER          -> 0

\* what a leaf of the projection is for a reference
ProjectedLeaf(r, reveal) ==
    IF ~reveal THEN PyStr(Masked)
    ELSE IF r.type = "int" THEN PyInt(IntegerOf(StoredValue(r)))
    ELSE PyStr(StoredValue(r))

\* d maps cast -> leaf for each bare leaf and key -> {child cast -> leaf} for
\* each group of gs, and has no other key
IsProjection(d, entries, reveal, gs) ==
    /\ d.kind = "pydict"
    /\ DOMAIN d.items = {r.cast : r \in BareLeaves(entries)} \cup {g.key : g \in gs}
    /\ \A r \in BareLeaves(entries) : d.items[r.cast] = ProjectedLeaf(r, reveal)
    /\ \A g \in gs :
          /\ d.items[g.key].kind = "pydict"
          /\ DOMAIN d.items[g.key].items =
                UNION { {c.cast : c \in ChildrenOf(h)} :
                        h \in {x \in Groups(entries) : x.key = g.key} }
          /\ \A c \in ChildrenOf(g) :
                d.items[g.key].items[c.cast] = ProjectedLeaf(c, reveal)

\* C12 as stated: for a successful resolve, to_dict(reveal=True) maps cast ->
\* cast() value for each bare leaf and key -> {child cast -> cast() value}
\* for each group (an int-typed leaf an integer, a str-typed leaf the raw
\* string); to_dict(reveal=False) has the same shape with every leaf "***".
C12_ToDictProjectsEveryGroup ==
    view.op = "to_dict" =>
        /\ view.ok
        /\ IsProjection(view.value, rarg.entries, view.reveal, Groups(rarg.entries))

\* C12 amended: the same, for each group that has at least one child; a
\* group without children contributes no key.
C12_ToDictProjectsTree ==
    view.op = "to_dict" =>
        /\ view.ok
        /\ IsProjection(view.value, rarg.entries, view.reveal,
                        {g \in Groups(rarg.entries) : g.children # <<>>})

C12_Witness ==
    /\ view.op = "to_dict"
    /\ view.reveal
    /\ view.ok
    /\ DOMAIN view.value.items = {TxtA, TxtG}
    /\ view.value.items[TxtA] = PyInt(5432)
    /\ view.value.items[TxtG] = PyDict((TxtA :> PyStr(Txt00123)))

\* the top-level keys a document declares, in order of first declaration (a
\* group without children declares none)
RECURSIVE DeclaredKeys(_)
DeclaredKeys(entries) ==
    IF entries = <<>> THEN <<>>
    ELSE LET e    == entries[Len(entries)]
             init == DeclaredKeys(SubSeq(entries, 1, Len(entries) - 1))
             ks   == IF e.kind = "ref" THEN <<e.ref.cast>>
                     ELSE IF e.children = <<>> THEN <<>> ELSE <<e.key>>
         IN  IF ks = <<>> \/ (\E i \in DOMAIN init : init[i] = ks[1]) THEN init
             ELSE init \o ks

\* the child casts declared below a group key, in order of first declaration
RECURSIVE DeclaredChildKeys(_, _)
DeclaredChildKeys(entries, key) ==
    IF entries = <<>> THEN <<>>
    ELSE LET e    == entries[Len(entries)]
             init == DeclaredChildKeys(SubSeq(entries, 1, Len(entries) - 1), key)
         IN  IF e.kind = "group" /\ e.key = key
             THEN Distinct(init \o [i \in 1..Len(e.children) |-> e.children[i].cast])
             ELSE init

\* the rendering of the masked projection of a document, written from its
\* keys alone: SecretNode({'k': '***', 'g': {'c': '***'}})
MaskedRendering(entries) ==
    LET ks == DeclaredKeys(entries)
        item(k) ==
            LET cs == DeclaredChildKeys(entries, k)
            IN  ReprStr(k) \o <<58, 32>>
                \o (IF cs = <<>> THEN ReprStr(Masked)
                    ELSE <<123>>
                         \o JoinItems([j \in 1..Len(cs) |->
                                          ReprStr(cs[j]) \o <<58, 32>> \o ReprStr(Masked)])
                         \o <<125>>)
    IN  TxtSecretNode \o <<40, 123>> \o JoinItems([i \in 1..Len(ks) |-> item(ks[i])])
        \o <<125, 41>>

\* sub occurs in text
Contains(text, sub) ==
    \E i \in 0..(Len(text) - Len(sub)) : SubSeq(text, i + 1, i + Len(sub)) = sub

\* C13 as stated: str/repr of a leaf accessor is exactly "***"; str/repr of a
\* resolved SecretNode is the masked projection and never contains the raw
\* value of any leaf, for every tree and every raw value.
C13_RenderingNeverContainsRaw ==
    /\ view.op = "leaf_repr" => view.value = PyStr(Masked)
    /\ view.op \in {"repr", "str"} =>
          /\ view.value = PyStr(MaskedRendering(rarg.entries))
          /\ \A v \in LeavesOf(rresult.tree) : ~Contains(view.value.str, v.raw)

\* C13 amended: str/repr of a leaf accessor is exactly "***"; str/repr of a
\* resolved SecretNode is the rendering of the masked projection, a text
\* fixed by the keys of the tree alone, the same for every choice of raw
\* values.
C13_RenderingIsMasked ==
    /\ view.op = "leaf_repr" => view.value = PyStr(Masked)
    /\ view.op \in {"repr", "str"} =>
          view.value = PyStr(MaskedRendering(rarg.entries))

C13_Witness ==
    /\ view.op = "repr"
    /\ index = MockIndexA
    /\ refs # <<>> /\ refs[1].path = <<TxtB>>
    /\ DOMAIN rresult.tree.items = {TxtB, TxtG}
    /\ rresult.tree.items[TxtB].raw = TxtNeg7
    /\ view.value.str = <<83, 101, 99, 114, 101, 116, 78, 111, 100, 101, 40, 123, 39, 98, 39, 58, 32, 39, 42, 42, 42, 39, 44, 32, 39, 103, 39, 58, 32, 123, 39, 97, 39, 58, 32, 39, 42, 42, 42, 39, 125, 125, 41>>

----------------------------------------------------------------------------
(* LocalMocksProvider: properties *)

\* the versions the index declares for exactly the key of the last call
CalledKey == [platform |-> pcall.platform, project |-> pcall.project, name |-> pcall.name]
DeclaredVersions == IF CalledKey \in DOMAIN pindex THEN DOMAIN pindex[CalledKey] ELSE {}

\* C14: fetch with "latest" returns the value of the greatest version
\* declared for the exact key (platform, project, name); with an integer
\* version the value declared for exactly that version; it raises
\* MissingLocalMockError when the key or that version is absent, and never
\* falls back to another version, project or name.
C14_LocalMocksFetch ==
    pcall.called =>
        IF pcall.version.latest
        THEN IF DeclaredVersions = {}
             THEN ~pcall.result.ok /\ pcall.result.err = "MissingLocalMockError"
             ELSE /\ pcall.result.ok
                  /\ \E v \in DeclaredVersions :
                        /\ \A w \in DeclaredVersions : w <= v
                        /\ pcall.result.value = pindex[CalledKey][v]
        ELSE IF pcall.version.n \in DeclaredVersions
             THEN /\ pcall.result.ok
                  /\ pcall.result.value = pindex[CalledKey][pcall.version.n]
             ELSE ~pcall.result.ok /\ pcall.result.err = "MissingLocalMockError"

C14_Witness ==
    /\ pcall.called
    /\ pindex = MockStoreB
    /\ pcall.version.latest
    /\ CalledKey = MockKey(GOOGLE, <<112>>, <<97>>)
    /\ pcall.result.ok
    /\ pcall.result.value = TxtV3

----------------------------------------------------------------------------
(* Envelope: properties *)

\* unseal was given exactly the envelope the last seal produced
UnsealedTheSealed ==
    /\ sealed.result.ok
    /\ unsealed.mode # "none"
    /\ unsealed.input = sealed.result.data

\* C1: for every plaintext P, every 32-byte key K and every 12-byte nonce
\* seal_with_key may draw, unseal_with_key(seal_with_key(P, K), K) returns
\* exactly P.
C1_KeyRoundTrip ==
    ( /\ UnsealedTheSealed
      /\ sealed.mode = "key" /\ unsealed.mode = "key"
      /\ Len(sealed.key) = 32
      /\ unsealed.key = sealed.key ) =>
        unsealed.result = EnvOk(sealed.plaintext)

\* the header fields of a passphrase envelope, read at their fixed offsets
HeaderTimeCost(data)    == data[8]
HeaderParallelism(data) == data[9]
HeaderMemoryCost(data)  == ((data[10] * 256 + data[11]) * 256 + data[12]) * 256 + data[13]
HeaderSalt(data)        == SubSeq(data, 15, 14 + data[14])

\* C2: for every plaintext P, passphrase pw and every salt and nonce
\* seal_with_passphrase may draw, unseal_with_passphrase(
\* seal_with_passphrase(P, pw), pw) returns exactly P; the header records the
\* salt, timeCost, memoryCost and parallelism the key is re-derived from.
C2_PassphraseRoundTrip ==
    /\ (sealed.mode = "passphrase") =>
          /\ sealed.result.ok
          /\ HeaderTimeCost(sealed.result.data) = 2
          /\ HeaderParallelism(sealed.result.data) = 1
          /\ HeaderMemoryCost(sealed.result.data) = 65536
          /\ HeaderSalt(sealed.result.data) = sealed.salt
    /\ ( /\ UnsealedTheSealed
         /\ sealed.mode = "passphrase" /\ unsealed.mode = "passphrase"
         /\ unsealed.passphrase = sealed.passphrase ) =>
          unsealed.result = EnvOk(sealed.plaintext)

C2_Witness ==
    /\ UnsealedTheSealed
    /\ sealed.mode = "passphrase" /\ unsealed.mode = "passphrase"
    /\ unsealed.passphrase = sealed.passphrase
    /\ sealed.passphrase = <<112, 233>>
    /\ sealed.nonce[1] = 0
    /\ argon2
    /\ unsealed.result = EnvOk(<<97, 58, 32, 49, 10>>)

----------------------------------------------------------------------------
(* Loader: properties *)

\* the tree a resolve of the reference document gives over a provider index
TreeFrom(idx) == resolve(idx, Arg("config", FALSE, RefEntries)).tree

\* load ran against the project directory with a reference document in
\* place, no settings and no environment, and the key KeyA in local.key
PlainLoad ==
    /\ loaded.called
    /\ base = ProjectDir
    /\ settings = NoctivaultSettings("local", NoLocalEnc)
    /\ env = Environ(NoPath, NoText)
    /\ files[ReferencePath].exists
    /\ files[LocalKeyPath].exists

\* C15: when a directory holds both the encrypted and the plaintext store,
\* resolve_local_store_source returns ("enc", path) and load resolves the
\* secrets from the unsealed content of the encrypted file; the plaintext
\* file is used only when the encrypted one is absent, and when neither
\* exists both raise FileNotFoundError.
C15_EncryptedStoreTakesPrecedence ==
    /\ (located # NotLocatedYet /\ base = ProjectDir) =>
           IF files[StoreEncPath].exists
           THEN located = Located("enc", StoreEncPath)
           ELSE IF files[StorePlainPath].exists
           THEN located = Located("yaml", StorePlainPath)
           ELSE located = NotLocated("FileNotFoundError")
    /\ PlainLoad =>
           IF files[StoreEncPath] = File(SealedWithKey)
           THEN loaded.kind = "node" /\ loaded.tree = TreeFrom(MockIndexB)
           ELSE IF files[StoreEncPath].exists
           THEN loaded.kind = "error"
           ELSE IF files[StorePlainPath].exists
           THEN loaded.kind = "node" /\ loaded.tree = TreeFrom(MockIndexA)
           ELSE loaded.kind = "error" /\ loaded.err = "FileNotFoundError"

\* what does hold of load: the store it parses is the encrypted one whenever
\* that exists, and the call ends in the resolver's AttributeError
C15_LoadStopsInResolver ==
    PlainLoad =>
        IF files[StoreEncPath] = File(SealedWithKey)
        THEN loaded.index = MockIndexB /\ loaded.err = "AttributeError"
        ELSE IF files[StoreEncPath].exists
        THEN loaded.err = "InvalidEncHeaderError"
        ELSE IF files[StorePlainPath].exists
        THEN loaded.index = MockIndexA /\ loaded.err = "AttributeError"
        ELSE loaded.err = "FileNotFoundError"

\* the candidate key files of a load, in the order of the claim: the path
\* in settings and the path in the environment when given, local.key next to
\* the store, local.key under ~/.config/noctivault
KeyCandidates ==
    (IF settings.local_enc.present /\ ~settings.local_enc.key_file_path.none
     THEN <<settings.local_enc.key_file_path.value>> ELSE <<>>)
    \o (IF ~env.NOCTIVAULT_LOCAL_KEY_FILE.none
        THEN <<env.NOCTIVAULT_LOCAL_KEY_FILE.value>> ELSE <<>>)
    \o <<LocalKeyPath, DefaultKeyPath>>

IsThere(p) == files[p].exists

ExistingCandidates == SelectSeq(KeyCandidates, IsThere)

\* load got as far as looking for a key file
KeyFileLoad == loaded.called /\ loaded.mode = "key-file"

\* C16: in key-file mode the key is read from the first candidate that
\* exists, whatever candidates are configured and exist; when none exists
\* load fails with MissingKeyMaterialError.
C16_FirstExistingKeyFileWins ==
    KeyFileLoad =>
        IF ExistingCandidates = <<>>
        THEN loaded.kind = "error" /\ loaded.err = "MissingKeyMaterialError"
        ELSE loaded.keyPath = ExistingCandidates[1]
             /\ loaded.err # "MissingKeyMaterialError"

\* what does hold: a configured path is read whether it exists or not
C16_ConfiguredPathIsReadUnchecked ==
    KeyFileLoad =>
        IF Len(KeyCandidates) > 2
        THEN /\ loaded.keyPath = KeyCandidates[1]
             /\ ~IsThere(KeyCandidates[1]) => loaded.err = "FileNotFoundError"
        ELSE IF ExistingCandidates = <<>>
        THEN loaded.err = "MissingKeyMaterialError"
        ELSE loaded.keyPath = ExistingCandidates[1]

\* load got as far as choosing between passphrase and key-file mode
ModeChosen == loaded.called /\ loaded.mode # "none"

ModeIsPassphrase == settings.local_enc.present /\ settings.local_enc.mode = "passphrase"

\* an optional text that is given, and one that is given and not empty
Given(o) == ~o.none
NonEmpty(o) == ~o.none /\ Len(o.value) > 0

\* C17 as stated: passphrase mode iff the mode is "passphrase" or the
\* environment variable NOCTIVAULT_LOCAL_PASSPHRASE is set; the passphrase
\* is the one in settings if present, else the environment variable, else
\* load fails with MissingKeyMaterialError.
C17_ModeAndPassphraseWhenSet ==
    ModeChosen =>
        /\ loaded.mode = "passphrase" <=>
               (ModeIsPassphrase \/ Given(env.NOCTIVAULT_LOCAL_PASSPHRASE))
        /\ loaded.mode = "passphrase" =>
               IF settings.local_enc.present /\ Given(settings.local_enc.passphrase)
               THEN loaded.passphrase = settings.local_enc.passphrase.value
                    /\ loaded.err # "MissingKeyMaterialError"
               ELSE IF Given(env.NOCTIVAULT_LOCAL_PASSPHRASE)
               THEN loaded.passphrase = env.NOCTIVAULT_LOCAL_PASSPHRASE.value
                    /\ loaded.err # "MissingKeyMaterialError"
               ELSE loaded.err = "MissingKeyMaterialError"

\* C17, amended: the same with "set" and "present" read as "has a non-empty
\* value": passphrase mode iff the mode is "passphrase" or the environment
\* variable is non-empty, key-file mode otherwise; the passphrase is the
\* non-empty one in settings, else the non-empty environment variable, else
\* load fails with MissingKeyMaterialError.
C17_ModeAndPassphraseWhenNonEmpty ==
    ModeChosen =>
        /\ loaded.mode = "passphrase" <=>
               (ModeIsPassphrase \/ NonEmpty(env.NOCTIVAULT_LOCAL_PASSPHRASE))
        /\ loaded.mode # "passphrase" => loaded.mode = "key-file"
        /\ loaded.mode = "passphrase" =>
               IF settings.local_enc.present /\ NonEmpty(settings.local_enc.passphrase)
               THEN loaded.passphrase = settings.local_enc.passphrase.value
                    /\ loaded.err # "MissingKeyMaterialError"
               ELSE IF NonEmpty(env.NOCTIVAULT_LOCAL_PASSPHRASE)
               THEN loaded.passphrase = env.NOCTIVAULT_LOCAL_PASSPHRASE.value
                    /\ loaded.err # "MissingKeyMaterialError"
               ELSE loaded.err = "MissingKeyMaterialError"

\* the environment variable alone selected passphrase mode and gave the
\* passphrase that unsealed the store
C17_Witness ==
    /\ loaded.called
    /\ ~ModeIsPassphrase
    /\ loaded.mode = "passphrase"
    /\ loaded.passphrase = TxtPw
    /\ loaded.index = MockIndexB

----------------------------------------------------------------------------
(* Envelope: wrong key material, tampering, header rejection *)

\* unseal_with_key was given a sealed key-file envelope and another key
WrongKey ==
    /\ UnsealedTheSealed
    /\ sealed.mode = "key" /\ unsealed.mode = "key"
    /\ unsealed.key # sealed.key

\* unseal_with_passphrase was given a sealed passphrase envelope and another
\* passphrase
WrongPassphrase ==
    /\ UnsealedTheSealed
    /\ sealed.mode = "passphrase" /\ unsealed.mode = "passphrase"
    /\ unsealed.passphrase # sealed.passphrase

\* C18: unsealing an envelope of seal_with_key with any other key, or an
\* envelope of seal_with_passphrase with any other passphrase, raises
\* DecryptError: no plaintext is returned and no other error is raised.
C18_WrongKeyMaterialRaisesDecryptError ==
    (WrongKey \/ WrongPassphrase) => unsealed.result = EnvErr("DecryptError")

\* what does hold: DecryptError, except that a key-file envelope whose nonce
\* starts with the byte 0x01 is rejected as a passphrase payload
C18_WrongKeyMaterialNeverUnseals ==
    (WrongKey \/ WrongPassphrase) =>
        IF sealed.mode = "key" /\ sealed.nonce[1] = MODE_PASSPHRASE
        THEN unsealed.result = EnvErr("InvalidEncHeaderError")
        ELSE unsealed.result = EnvErr("DecryptError")

\* the positions where two byte strings of the same length differ
Differences(a, b) == {i \in 1..Len(a) : a[i] # b[i]}

\* b is a with exactly one bit flipped, at a position of the set region
OneBitFlipped(a, b, region) ==
    /\ Len(a) = Len(b)
    /\ Cardinality(Differences(a, b)) = 1
    /\ \A i \in Differences(a, b) :
           i \in region /\ \E k \in 0..7 : b[i] = FlipBit(a[i], k)

\* the regions of the two layouts, counted from the start of the envelope:
\* key-file: magic 5, nonce 12, ciphertext and tag;
\* passphrase: magic 5, header 9, salt 16, nonce 12, ciphertext and tag
BodyRegion(mode, data) == IF mode = "key" THEN 6..Len(data) ELSE 15..Len(data)

\* unseal_* of the sealed envelope's profile was given that envelope with one
\* bit flipped in its nonce, salt or ciphertext/tag, and the original key or
\* passphrase
Tampered ==
    /\ sealed.result.ok
    /\ unsealed.mode = sealed.mode
    /\ unsealed.key = sealed.key /\ unsealed.passphrase = sealed.passphrase
    /\ OneBitFlipped(sealed.result.data, unsealed.input,
                     BodyRegion(sealed.mode, sealed.result.data))

\* C19: a single-bit flip in the nonce, the salt or the ciphertext/tag of a
\* sealed envelope of either profile makes unsealing with the original key
\* or passphrase raise DecryptError: not InvalidEncHeaderError, no other
\* exception, no plaintext.
C19_TamperingRaisesDecryptError ==
    Tampered => unsealed.result = EnvErr("DecryptError")

\* what does hold: no plaintext is returned, and the error is DecryptError
\* unless the byte after the magic of the key-file envelope reads 0x01
C19_TamperingNeverUnseals ==
    Tampered =>
        IF sealed.mode = "key" /\ unsealed.input[6] = MODE_PASSPHRASE
        THEN unsealed.result = EnvErr("InvalidEncHeaderError")
        ELSE unsealed.result = EnvErr("DecryptError")

\* a flipped bit in the first nonce byte, 0x81, of a key-file envelope that
\* unseals correctly when untouched
C19_FlipMakesPassphraseTag ==
    ~( /\ Tampered
       /\ sealed.mode = "key"
       /\ sealed.nonce[1] = 129
       /\ unsealed.input[6] = MODE_PASSPHRASE
       /\ unsealed.result = EnvErr("InvalidEncHeaderError") )

\* the input starts with the five bytes "NVLE1"
HasMagic(d) == Len(d) >= 5 /\ SubSeq(d, 1, 5) = <<78, 86, 76, 69, 49>>

\* byte number n of the input, counted from 0, is there and equals b
ByteIs(d, n, b) == Len(d) > n /\ d[n + 1] = b

\* byte number n of the input, counted from 0, is missing or differs from b
ByteIsNot(d, n, b) == Len(d) <= n \/ d[n + 1] # b

\* the input is the sealed key-file envelope with the mode tag 0x00 put
\* between its magic and its nonce
TaggedKeyfile(d) ==
    /\ sealed.result.ok /\ sealed.mode = "key"
    /\ Len(d) = Len(sealed.result.data) + 1
    /\ ByteIs(d, 5, 0)
    /\ SubSeq(d, 1, 5) \o SubSeq(d, 7, Len(d)) = sealed.result.data

Rejected == unsealed.result = EnvErr("InvalidEncHeaderError")

\* C20: both unseal functions raise InvalidEncHeaderError, never
\* DecryptError, on an input that does not start with the magic;
\* unseal_with_passphrase also when the mode byte is not 0x01 or the KDF id
\* byte is not 0x01; unseal_with_key when the byte after the magic is 0x01,
\* while a mode tag 0x00 after the magic is skipped and what follows is
\* unsealed as nonce + ciphertext of the key-file layout.
C20_HeaderRejection ==
    unsealed.mode # "none" =>
        LET d == unsealed.input
        IN  /\ ~HasMagic(d) => Rejected
            /\ (unsealed.mode = "passphrase" /\ HasMagic(d) /\ ByteIsNot(d, 5, 1))
                   => Rejected
            /\ (unsealed.mode = "passphrase" /\ HasMagic(d) /\ ByteIs(d, 5, 1)
                /\ Len(d) > 6 /\ d[7] # 1) => Rejected
            /\ (unsealed.mode = "key" /\ HasMagic(d) /\ ByteIs(d, 5, 1)) => Rejected
            /\ (unsealed.mode = "key" /\ TaggedKeyfile(d)) =>
                   unsealed.result = IF unsealed.key = sealed.key
                                     THEN EnvOk(sealed.plaintext)
                                     ELSE EnvErr("DecryptError")

\* a tagged key-file envelope whose nonce starts with 0x01 was unsealed to
\* its plaintext
C20_Witness ==
    /\ unsealed.mode = "key"
    /\ TaggedKeyfile(unsealed.input)
    /\ sealed.nonce[1] = 1
    /\ sealed.plaintext # <<>>
    /\ unsealed.result = EnvOk(sealed.plaintext)

----------------------------------------------------------------------------
(* Command-line helpers: properties *)

\* a step that is a call of verify
VerifyStep == cliCall'.op = "verify"

\* C21: verify returns True exactly when unseal of the file succeeds, False
\* exactly when unseal raises InvalidEncHeaderError or DecryptError, and it
\* raises whatever else unseal raises (unreadable file, no key material, both
\* a key file and a passphrase); verify changes no file.
C21_VerifyMirrorsUnseal ==
    [][ VerifyStep =>
          LET u == cli_unseal(files, cliArgs)
              rejected == ~u.ok /\ u.err \in {"InvalidEncHeaderError", "DecryptError"}
          IN  /\ files' = files
              /\ (cliCall'.kind = "return" /\ cliCall'.value) <=> u.ok
              /\ (cliCall'.kind = "return" /\ ~cliCall'.value) <=> rejected
              /\ (~u.ok /\ ~rejected) => (cliCall'.kind = "raise" /\ cliCall'.err = u.err)
      ]_vars

\* verify, given a key file, returned False for an encrypted store that is
\* not the one sealed with that key
C21_Witness ==
    /\ cliCall.op = "verify"
    /\ cliCall.kind = "return" /\ ~cliCall.value
    /\ cliArgs.key_file_path = SomePath(LocalKeyPath)
    /\ files[StoreEncPath].exists
    /\ files[StoreEncPath].data # SealedWithKey
    /\ Len(files[StoreEncPath].data) > Len(MAGIC) + NONCE_SIZE

----------------------------------------------------------------------------
(* Loader: the remote source, the client's state *)

\* load ran against the project directory with settings.source = "remote"
RemoteLoad ==
    /\ loaded.called
    /\ settings.source = "remote"
    /\ base = ProjectDir

\* C22: with settings.source = "remote", load reads only the reference file
\* of the directory, resolves the references through the remote provider and
\* returns the tree, whatever local store files the directory holds; with no
\* reference file it raises FileNotFoundError.
C22_RemoteLoadsFromReferences ==
    RemoteLoad =>
        IF files[ReferencePath].exists
        THEN loaded.kind = "node" /\ loaded.source = "none"
        ELSE loaded.kind = "error" /\ loaded.err = "FileNotFoundError"

\* what does hold: a remote load raises NotImplementedError before it looks
\* at any file
C22_RemoteNotImplemented ==
    (loaded.called /\ settings.source = "remote") =>
        /\ loaded.kind = "error" /\ loaded.err = "NotImplementedError"
        /\ loaded.source = "none"

----------------------------------------------------------------------------
(* Resolver: leaf paths, lookup, merged groups *)

\* the paths of the leaves of a tree of depth at most two
LeafPaths(tree) ==
    { <<k>> : k \in {x \in DOMAIN tree.items : tree.items[x].kind = "leaf"} }
    \cup UNION { { <<k, c>> : c \in DOMAIN tree.items[k].items } :
                 k \in {x \in DOMAIN tree.items : tree.items[x].kind = "dict"} }

\* segments joined with dots: "a" and "b" give "a.b"
DotJoined(path) ==
    IF Len(path) = 1 THEN path[1] ELSE path[1] \o <<46>> \o path[2]

\* the leaves a reference list declares: one per bare leaf, one per child
DeclaredLeafCount(entries) ==
    Cardinality({i \in DOMAIN entries : entries[i].kind = "ref"})
    + Cardinality({ <<i, j>> \in (DOMAIN entries) \X (1..2) :
                      entries[i].kind = "group" /\ j <= Len(entries[i].children) })

Resolved == rpc = "done" /\ rresult.kind = "node"

\* C23: after a successful resolve the dot-joined paths of the leaves of the
\* tree are pairwise distinct and there is one per declared entry, whatever
\* cast and group-key strings are declared; so an index keyed by dot-joined
\* path has one entry per leaf.
C23_DotJoinedPathsUnique ==
    Resolved =>
        LET paths == LeafPaths(rresult.tree)
            keys  == {DotJoined(p) : p \in paths}
        IN  /\ Cardinality(paths) = DeclaredLeafCount(rarg.entries)
            /\ Cardinality(keys) = Cardinality(paths)

\* what does hold: the leaves are distinct as paths (lists of segments), one
\* per declared entry
C23_PathsUniqueAsSegments ==
    Resolved =>
        /\ Cardinality(LeafPaths(rresult.tree)) = DeclaredLeafCount(rarg.entries)
        /\ \A i, j \in DOMAIN refs : refs[i].path = refs[j].path => i = j

\* the child a node holds under key, as a lookup hands it out: a node for a
\* group, a leaf for a secret
ChildUnder(tree, key) ==
    IF tree.items[key].kind = "dict" THEN [kind |-> "node", data |-> tree.items[key]]
    ELSE [kind |-> "leaf", data |-> tree.items[key]]

Looked == view.op \in {"getattr", "getitem"}

\* C24: attribute lookup and subscripting on a node return the child stored
\* under the key, for every key of the node, names of the node's own methods
\* and fields (such as to_dict) included.
C24_LookupReturnsChild ==
    (Looked /\ view.path[1] \in DOMAIN rresult.tree.items) =>
        /\ view.ok
        /\ view.value = ChildUnder(rresult.tree, view.path[1])

\* what does hold: the child is returned for every key that is not the name
\* of an attribute of the node; for those names both lookups return the
\* node's own attribute; a key the node does not have raises KeyError
C24_LookupShadowedByAttributes ==
    Looked =>
        LET key == view.path[1]
        IN  IF key \in NodeAttributes
            THEN view.ok /\ view.value.kind = "attribute"
            ELSE IF key \in DOMAIN rresult.tree.items
            THEN view.ok /\ view.value = ChildUnder(rresult.tree, key)
            ELSE ~view.ok /\ view.value = PyStr("KeyError")

----------------------------------------------------------------------------
(* Envelope: the KDF the header names *)

HeaderKdfId(data) == data[7]

\* the ciphertext of a passphrase envelope: what follows salt and nonce
HeaderCiphertext(data) == SubSeq(data, 15 + data[14] + NONCE_SIZE, Len(data))

SealedWithPassphraseOk == sealed.mode = "passphrase" /\ sealed.result.ok

\* whether the envelope opens under the key this derivation gives
OpensUnder(k) ==
    /\ k.ok
    /\ AeadDecrypt(k.key, sealed.nonce, HeaderCiphertext(sealed.result.data), MAGIC)
         = [ok |-> TRUE, data |-> sealed.plaintext]

\* Argon2id over the passphrase and the parameters the header records
RecordedArgon2idKey ==
    LET d == sealed.result.data
    IN  argon2_hash(Utf8Encode(sealed.passphrase), HeaderSalt(d), HeaderTimeCost(d),
                    HeaderMemoryCost(d), HeaderParallelism(d))

\* C25: the KDF id byte of a passphrase envelope names the KDF that derived
\* its key: the header says Argon2id and the key is Argon2id over
\* (passphrase, salt, timeCost, memoryCostKiB, parallelism) as recorded,
\* whether or not Argon2id is available to the process.
C25_HeaderNamesTheKdfUsed ==
    SealedWithPassphraseOk =>
        /\ HeaderKdfId(sealed.result.data) = KDF_ID_ARGON2ID
        /\ OpensUnder(RecordedArgon2idKey)

\* what does hold: the header always says Argon2id; the key is Argon2id over
\* the recorded parameters when Argon2id is available, and scrypt
\* (n = 2^14, r = 8, p = 1) over passphrase and salt when it is not
C25_KdfFollowsAvailability ==
    SealedWithPassphraseOk =>
        /\ HeaderKdfId(sealed.result.data) = KDF_ID_ARGON2ID
        /\ argon2 => OpensUnder(RecordedArgon2idKey)
        /\ ~argon2 =>
              /\ OpensUnder(kdf_scrypt(Utf8Encode(sealed.passphrase),
                                       HeaderSalt(sealed.result.data), 16384, 8, 1))
              /\ ~OpensUnder(RecordedArgon2idKey)

----------------------------------------------------------------------------
(* Remote provider: the retry budget of one fetch *)

FetchStarts == nfetch' # nfetch

\* C26: a single fetch makes at most 4 backend calls and at most 3 sleeps,
\* whatever the backend answers, and the attempt counter starts from zero in
\* every fetch: a fetch that follows another on the same provider has the
\* whole budget again.
C26_BoundedRetries ==
    /\ [](/\ Len(history) <= 4
          /\ Len(sleeps) <= 3
          /\ attempts = Len(history)
          /\ Len(sleeps) <= Len(history))
    /\ [][FetchStarts => (attempts' = 0 /\ history' = <<>> /\ sleeps' = <<>>)]_vars

\* the second fetch of a provider spends the whole budget after the first
\* one did
C26_Witness ==
    /\ nfetch = 2
    /\ Len(history) = 4
    /\ Len(sleeps) = 3
    /\ fpc = "done"

IsNotFound(o) == IsRaise(o) /\ IsInstance(o, gexc, "NotFound")

Is5xx(o) == IsRaise(o) /\ ~IsNotFound(o) /\ IsInstanceAny(o, gexc, Cls5xx)

Is429(o) ==
    /\ IsRaise(o) /\ ~IsNotFound(o) /\ ~IsInstanceAny(o, gexc, Cls5xx)
    /\ IsInstance(o, gexc, "ResourceExhausted")

\* C27: one attempt counter serves every kind of failure.  (a) not-found is
\* retried only when it is the first backend call of the fetch: not-found on
\* call 2 or later raises MissingRemoteSecretError at once, with no sleep.
\* (b) the exponent of the 5xx and rate-limit backoff is the number of the
\* call within the fetch, not the number of failures of that kind:
\* [NotFound, ServiceUnavailable, success] sleeps 0.2 s then 0.4 s.
C27_SharedAttemptCounter ==
    gexc.present =>
        /\ \A i \in DOMAIN history :
              (i >= 2 /\ IsNotFound(history[i])) =>
                 /\ i = Len(history)
                 /\ fpc = "done"
                 /\ fresult = Raised("MissingRemoteSecretError")
                 /\ Len(sleeps) = i - 1
        /\ \A i \in DOMAIN history :
              (i <= 3 /\ Is5xx(history[i])) =>
                 (Len(sleeps) >= i /\ sleeps[i] = Sleeps5xx[i])
        /\ \A i \in DOMAIN history :
              (i <= 3 /\ Is429(history[i]) /\ ~HasRetryAfter(history[i])) =>
                 (Len(sleeps) >= i /\ sleeps[i] = Sleeps429[i])
        /\ ( /\ Len(history) = 3
             /\ history[1].cls = "NotFound"
             /\ history[2].cls = "ServiceUnavailable"
             /\ history[3] = OkOutcome(TxtHello) ) =>
              /\ sleeps = << [s |-> 0, n |-> 200000000], [s |-> 0, n |-> 400000000] >>
              /\ fresult = Returned(TxtHello)

\* [NotFound, ServiceUnavailable, success]
C27_Witness ==
    /\ gexc.present
    /\ Len(history) = 3
    /\ history[1].cls = "NotFound"
    /\ history[2].cls = "ServiceUnavailable"
    /\ history[3] = OkOutcome(TxtHello)
    /\ fpc = "done"
    /\ Len(sleeps) = 2

\* [ServiceUnavailable, NotFound]: not-found on the second call
C27_WitnessLateNotFound ==
    /\ gexc.present
    /\ Len(history) = 2
    /\ history[1].cls = "ServiceUnavailable"
    /\ history[2].cls = "NotFound"
    /\ fpc = "done"

----------------------------------------------------------------------------
(* Loader: the client's state across load *)

LoadStep == loaded'.called /\ ~loaded.called

\* load ran against the project directory holding a plaintext store and a
\* reference document, no encrypted store, no settings and no environment
ValidPlainProject ==
    /\ loaded.called
    /\ base = ProjectDir
    /\ settings = NoctivaultSettings("local", NoLocalEnc)
    /\ env = Environ(NoPath, NoText)
    /\ ~files[StoreEncPath].exists
    /\ files[StorePlainPath].exists
    /\ files[ReferencePath].exists

\* the dot-joined leaf paths of the tree the reference document declares
DeclaredLeafPaths == {Join(p) : p \in WalkPaths(TreeFrom(MockIndexA))}

\* C28: load is all-or-nothing on the client's state: a load that raises
\* leaves the tree and both indices as they were, and get and display_hash
\* still raise RuntimeError when nothing was loaded before; after a load that
\* succeeds, get(path) is defined exactly for the dot-joined leaf paths of
\* the tree and raises KeyError for every other path.  Load of a valid
\* project succeeds.
C28_LoadIsAllOrNothing ==
    /\ [][(LoadStep /\ loaded'.kind = "error") => client' = client]_vars
    /\ []((got.op # "none" /\ ~client.loaded) =>
             (got.kind = "raise" /\ got.err = "RuntimeError"))
    /\ [](ValidPlainProject => loaded.kind = "node" /\ client.loaded)
    /\ []((got.op = "get" /\ client.loaded) =>
             IF got.path \in {Join(p) : p \in WalkPaths(client.secrets)}
             THEN got.kind = "return"
             ELSE got.kind = "raise" /\ got.err = "KeyError")

\* what does hold: no load returns, so the client's state is never assigned
\* and every get and display_hash raises RuntimeError
C28_ClientNeverLoaded ==
    /\ [][LoadStep => (loaded'.kind = "error" /\ client' = client)]_vars
    /\ [](client = NoClient)
    /\ [](got.op # "none" => (got.kind = "raise" /\ got.err = "RuntimeError"))

\* get of the declared leaf after load of a valid project
C28_GetAfterValidLoad ==
    /\ ValidPlainProject
    /\ got.op = "get"
    /\ got.path \in DeclaredLeafPaths

----------------------------------------------------------------------------
(* Resolver: groups that repeat a key *)

DistinctCasts(children) ==
    \A i, j \in DOMAIN children : children[i].cast = children[j].cast => i = j

\* resolve ended on two groups that declare the same key, each with children
\* of distinct casts
SameKeyGroups ==
    /\ rpc = "done"
    /\ rarg.kind = "config" /\ ~rarg.none
    /\ Len(rarg.entries) = 2
    /\ rarg.entries[1].kind = "group" /\ rarg.entries[2].kind = "group"
    /\ rarg.entries[1].key = rarg.entries[2].key
    /\ DistinctCasts(rarg.entries[1].children)
    /\ DistinctCasts(rarg.entries[2].children)

\* the children of both groups, in declaration order
BothChildren == rarg.entries[1].children \o rarg.entries[2].children

\* the provider holds a value for the child and the value passes its cast
ChildResolves(r) ==
    /\ MockKey(r.platform, r.gcp_project_id, r.ref) \in DOMAIN index
    /\ r.type = "int" => StoredValue(r) \in IntegerRaws

\* C29: two groups that declare the same key are merged into one interior
\* node: the repeated key itself raises nothing, the node under the key holds
\* the children of both groups, and DuplicatePathError is raised only when a
\* child of one group has the cast of a child of the other.
C29_SameKeyGroupsAreMerged ==
    SameKeyGroups =>
        LET key    == rarg.entries[1].key
            kids   == BothChildren
            shared == ~DistinctCasts(kids)
            allOk  == \A i \in DOMAIN kids : ChildResolves(kids[i])
        IN  /\ (rresult.kind = "error" /\ rresult.err = "DuplicatePathError") => shared
            /\ rresult.kind = "error" =>
                  rresult.err \in {"DuplicatePathError", "TypeCastError"}
            /\ (allOk /\ shared) =>
                  (rresult.kind = "error" /\ rresult.err = "DuplicatePathError")
            /\ (allOk /\ ~shared) =>
                  /\ rresult.kind = "node"
                  /\ kids # <<>> =>
                        /\ DOMAIN rresult.tree.items = {key}
                        /\ rresult.tree.items[key].kind = "dict"
                        /\ DOMAIN rresult.tree.items[key].items
                             = {kids[i].cast : i \in DOMAIN kids}
                        /\ \A i \in DOMAIN kids :
                              rresult.tree.items[key].items[kids[i].cast]
                                = SecretValue(StoredValue(kids[i]), kids[i].type)

\* two groups with the key "a", one child each, merged into one node with
\* both children
C29_Witness ==
    /\ SameKeyGroups
    /\ Len(rarg.entries[1].children) = 1
    /\ Len(rarg.entries[2].children) = 1
    /\ rresult.kind = "node"
    /\ Cardinality(DOMAIN rresult.tree.items[rarg.entries[1].key].items) = 2

\* the cast "a" under the key "a" in both groups
C29_WitnessSharedCast ==
    /\ SameKeyGroups
    /\ ~DistinctCasts(BothChildren)
    /\ rresult.err = "DuplicatePathError"

----------------------------------------------------------------------------
(* Envelope: the errors unseal raises *)

Unsealed == unsealed.mode # "none"

\* unseal_* was handed the envelope as sealed, by the other profile
CrossProfile ==
    /\ UnsealedTheSealed
    /\ sealed.mode # unsealed.mode

\* C30: for every byte string (truncated and corrupted envelopes, headers
\* with arbitrary parameter bytes) and every key or passphrase, unseal_with_key
\* and unseal_with_passphrase return a plaintext or raise
\* InvalidEncHeaderError or DecryptError, nothing else; an envelope sealed
\* under one profile is rejected with InvalidEncHeaderError by the unseal of
\* the other.
C30_ClosedErrorDomain ==
    /\ Unsealed =>
          \/ unsealed.result.ok
          \/ unsealed.result.err \in {"InvalidEncHeaderError", "DecryptError"}
    /\ CrossProfile =>
          (~unsealed.result.ok /\ unsealed.result.err = "InvalidEncHeaderError")

\* what does hold: unseal_with_key raises nothing but the two envelope
\* errors; unseal_with_passphrase also lets out IndexError (a header cut
\* short after the mode byte) and, where Argon2id is available, its
\* HashingError (parameter bytes it refuses)
C30_UnsealErrors ==
    Unsealed =>
        \/ unsealed.result.ok
        \/ unsealed.result.err \in {"InvalidEncHeaderError", "DecryptError"}
        \/ /\ unsealed.mode = "passphrase"
           /\ unsealed.result.err = "IndexError"
           /\ Len(unsealed.input) <= Len(MAGIC) + 8
        \/ /\ unsealed.mode = "passphrase"
           /\ unsealed.result.err = "HashingError"
           /\ argon2

\* unseal_with_passphrase(MAGIC + b"\x01", pw)
C30_IndexErrorReached ==
    /\ unsealed.mode = "passphrase"
    /\ unsealed.input = MAGIC \o <<MODE_PASSPHRASE>>
    /\ unsealed.result.err = "IndexError"

\* a passphrase envelope whose time-cost byte is zero
C30_HashingErrorReached ==
    /\ unsealed.mode = "passphrase"
    /\ unsealed.result.err = "HashingError"

=============================================================================
